---- MODULE Spec2Model ----
(***************************************************************************)
(* A model of the circuit-cutting / fragment-tomography pipeline of        *)
(* src/mlft: cut_circuit, get_outcome_combiner, the tomography operation   *)
(* builders, the shot budget of perform_fragment_tomography, the           *)
(* rank_cutoff plumbing of build_fragment_models and the eigenvalue        *)
(* correction correct_probability_distribution.                            *)
(*                                                                         *)
(* Conventions.                                                            *)
(*  - A qubit is a pair <<kind, n>>: <<0, n>> is cirq.LineQubit(n) and     *)
(*    <<1, n>> is cirq.NamedQubit("cut_n").  cirq orders qubits of         *)
(*    different classes by class name ("LineQubit" < "NamedQubit") and     *)
(*    qubits of one class by their key, which is the order QubitLess.      *)
(*  - A cut-name "cut_n" is the number n.                                  *)
(*  - An operation is the set of qubits it addresses (the gate plays no    *)
(*    part in cutting); a moment is a set of operations on disjoint        *)
(*    qubits; a circuit is a sequence of moments.  Python's moment index j *)
(*    is position j + 1 of the sequence.                                   *)
(*  - A Python dict is a function; d[k] = v is Put(d, k, v).               *)
(***************************************************************************)
EXTENDS Integers, Sequences, FiniteSets, TLC

VARIABLES
    \* cut_circuit (src/mlft/cutting_methods.py)
    pc,                          \* position in the pipeline
    input_circuit,               \* the caller's circuit
    circuit,                     \* the local copy cirq.Circuit(circuit)
    quantum_inputs,              \* Dict[Qid, cut_name]
    quantum_outputs,             \* Dict[Qid, cut_name]
    initial_to_final_qubit_map,  \* Dict[Qid, Qid]
    cut_index,                   \* the next cut-name to hand out
    last_cut,                    \* the element of sorted(cuts) processed last
    last_branch,                 \* which branch that iteration took
    num_cuts,                    \* how many elements of sorted(cuts) were processed
    fragments,                   \* the list of Fragment objects, in key order
    \* get_outcome_combiner (src/mlft/helper_functions/post_process.py)
    qubit_order,                 \* the caller's qubit_order
    bit_permutation,             \* the permutation the combiner closes over
    \* correct_probability_distribution (src/mlft/mlft.py)
    mlc_pc,                      \* "input", "corrected", "recorrected"
    probabilities,               \* the array given to the correction, one row per block
    corrected,                   \* what the correction returns for it
    recorrected,                 \* what the correction returns for its own output
    sorted_trace,                \* sorted_probabilities before the loop and after every pass
    \* the operation builders (src/mlft/helper_functions/prep_functions.py)
    ops_pc,                      \* "called", "returned"
    ops_call,                    \* the builder called and its argument
    ops_result,                  \* what it gave: the operations/states, or an error
    \* build_fragment_models (src/mlft/build_fragments.py)
    build_pc,                    \* "called", "built"
    build_call,                  \* the tomography data and the rank_cutoff passed
    lstsq_cond,                  \* per fragment and block, the cond given to lstsq
    \* perform_fragment_tomography (src/mlft/tomography.py)
    tomo_pc,                     \* "called", "done", "error", "type_error"
    tomo_call,                   \* the fragments, prep_basis and repetitions passed
    repetitions_per_variant,     \* the budget handed to every fragment's tomography
    tomography_modes,            \* per fragment, how its tomography ran: "sampling" or "exact"
    \* the outcome vector of build_conditional_fragment_model (src/mlft/build_fragments.py)
    vec_pc,                      \* "called", "built"
    vec_call,                    \* the fragment's shape and the data recorded for one substring
    interrogation_outcomes,      \* the vector b
    \* the objects the stages of the pipeline hand to one another (cutting_methods.py,
    \* tomography.py, build_fragments.py, mlft.py, rebuild_fragments.py)
    heap,                        \* the objects allocated so far; a reference is a position
    pure_pc,                     \* the stage the pipeline has completed
    pure_call,                   \* the cut list, the basis and the budget of the pipeline
    circuit_ref,                 \* the caller's circuit
    fragment_refs,               \* the Fragment objects cut_circuit returned
    tomography_refs,             \* the FragmentTomographyData objects
    model_refs,                  \* the FragmentModel objects of the builder
    corrected_refs,              \* the FragmentModel objects of the corrector
    \* perform_single_fragment_tomography (src/mlft/tomography.py)
    single_pc,                   \* "called" "looping" "returned"
    single_call,                 \* the fragment's shape, prep_basis and the budget passed
    single_repetitions,          \* repetitions_per_variant as the function holds it
    setting_index,               \* the number of settings the loops have passed
    simulated,                   \* the settings simulated so far in order
    drawn,                       \* the repetitions the simulator ran for the latest setting
    outcome_counter,             \* the histogram of the latest setting, by the outcomes it counts
    setting_data,                \* the entries the latest setting wrote to tomography_data
    exact_data,                  \* tomography_data as exact mode has filled it so far
    slot_writes,                 \* per slot of tomography_data, the writes exact mode made
    \* perform_single_fragment_tomography, by the repetitions it runs and divides by
    shots_pc,                    \* "called" "looping" "returned"
    shots_call,                  \* the fragment's shape, prep_basis and the budget passed
    shots_repetitions,           \* repetitions_per_variant as the function holds it
    shots_passes,                \* the number of settings the loops have passed
    run_repetitions,             \* the repetitions simulator.run was called with last
    counted,                     \* the counts of the latest histogram, added up
    divisors,                    \* what the counts of the latest histogram were divided by
    \* corrected_fragment_models (src/mlft/mlft.py)
    models_pc,                   \* "called" "corrected"
    fragment_models,             \* per fragment, the eigenvalues eigh finds for its blocks
    corrected_models,            \* per fragment, the eigenvalues its blocks are rebuilt from
    \* recombine_fragment_models (src/mlft/rebuild_fragments.py)
    recombine_pc,                \* position in recombine_fragment_models
    original_circuit,            \* the circuit the fragments were cut from
    recombine_models,            \* per fragment: the Fragment and the keys of the model's data
    recombine_order,             \* the qubit_order argument
    contractions,                \* the combinations a network was contracted for; in loop order
    recombined_distribution,     \* combined outcome -> the combination whose value it holds
    \* run_subcircuit_instances (src/cutqc/evaluator.py)
    jobs_pc,                     \* position in the loop over the ranks
    jobs,                        \* the job list
    num_workers,                 \* the number of workers
    rank,                        \* the rank the loop is at
    rank_jobs                    \* the slices handed out so far; one per rank

cutVars == <<pc, input_circuit, circuit, quantum_inputs, quantum_outputs, initial_to_final_qubit_map,
             cut_index, last_cut, last_branch, num_cuts, fragments, qubit_order,
             bit_permutation>>

mlcVars == <<mlc_pc, probabilities, corrected, recorrected, sorted_trace>>

opsVars == <<ops_pc, ops_call, ops_result>>

buildVars == <<build_pc, build_call, lstsq_cond>>

tomoVars == <<tomo_pc, tomo_call, repetitions_per_variant, tomography_modes>>

vecVars == <<vec_pc, vec_call, interrogation_outcomes>>

pureVars == <<heap, pure_pc, pure_call, circuit_ref, fragment_refs, tomography_refs, model_refs,
              corrected_refs>>

singleVars == <<single_pc, single_call, single_repetitions, setting_index, simulated, drawn,
                outcome_counter, setting_data, exact_data, slot_writes>>

shotsVars == <<shots_pc, shots_call, shots_repetitions, shots_passes, run_repetitions, counted,
               divisors>>

modelsVars == <<models_pc, fragment_models, corrected_models>>

recombineVars == <<recombine_pc, original_circuit, recombine_models, recombine_order,
                  contractions, recombined_distribution>>

jobsVars == <<jobs_pc, jobs, num_workers, rank, rank_jobs>>

vars == <<cutVars, mlcVars, opsVars, buildVars, tomoVars, vecVars, pureVars, singleVars,
          shotsVars, modelsVars, recombineVars, jobsVars>>

\* what the steps of one component leave alone
notCut == <<mlcVars, opsVars, buildVars, tomoVars, vecVars, pureVars, singleVars, shotsVars,
            modelsVars, recombineVars, jobsVars>>
notMlc == <<cutVars, opsVars, buildVars, tomoVars, vecVars, pureVars, singleVars, shotsVars,
            modelsVars, recombineVars, jobsVars>>
notOps == <<cutVars, mlcVars, buildVars, tomoVars, vecVars, pureVars, singleVars, shotsVars,
            modelsVars, recombineVars, jobsVars>>
notBuild == <<cutVars, mlcVars, opsVars, tomoVars, vecVars, pureVars, singleVars, shotsVars,
              modelsVars, recombineVars, jobsVars>>
notTomo == <<cutVars, mlcVars, opsVars, buildVars, vecVars, pureVars, singleVars, shotsVars,
             modelsVars, recombineVars, jobsVars>>
notVec == <<cutVars, mlcVars, opsVars, buildVars, tomoVars, pureVars, singleVars, shotsVars,
            modelsVars, recombineVars, jobsVars>>
notPure == <<cutVars, mlcVars, opsVars, buildVars, tomoVars, vecVars, singleVars, shotsVars,
             modelsVars, recombineVars, jobsVars>>
notSingle == <<cutVars, mlcVars, opsVars, buildVars, tomoVars, vecVars, pureVars, shotsVars,
               modelsVars, recombineVars, jobsVars>>
notShots == <<cutVars, mlcVars, opsVars, buildVars, tomoVars, vecVars, pureVars, singleVars,
              modelsVars, recombineVars, jobsVars>>
notModels == <<cutVars, mlcVars, opsVars, buildVars, tomoVars, vecVars, pureVars, singleVars,
               shotsVars, recombineVars, jobsVars>>
notRecombine == <<cutVars, mlcVars, opsVars, buildVars, tomoVars, vecVars, pureVars, singleVars,
                  shotsVars, modelsVars, jobsVars>>
notJobs == <<cutVars, mlcVars, opsVars, buildVars, tomoVars, vecVars, pureVars, singleVars,
             shotsVars, modelsVars, recombineVars>>

\* ---------------------------------------------------------------- bounds

NumQubits == 2
MaxMoments == 2
MaxCuts == 2
MaxEntries == 4
MaxAbsValue == 2
MaxLabels == 2
MaxModels == 2
MaxCircuitOutputs == 1
MaxCutoffExponent == 4
MaxFragments == 2
MaxPorts == 1
MaxRepetitions == 12
MaxCutQubits == 1
MaxRecorded == 1
MaxProbability == 3
SharedQubits == 1
SharedMoments == 2
ChainQubits == 1
ChainMoments == 3
ChainCuts == 3
CombinerQubits == 2
CombinerMoments == 3
CombinerCuts == 3
MaxCircuitQubits == 13
LargeBudget == 20000
MaxMeasuredQubits == 2
MaxSampledSettings == 18
MaxEigenEntries == 3
MaxEigenvalue == 1
MaxJobs == 4
MaxWorkers == 3

\* ---------------------------------------------------------------- helpers

Min(a, b) == IF a < b THEN a ELSE b

EmptyDict == << >>

Put(d, k, v) == [x \in DOMAIN d \cup {k} |-> IF x = k THEN v ELSE d[x]]

Restrict(d, S) == [x \in DOMAIN d \cap S |-> d[x]]

LineQubit(n) == <<0, n>>

NamedQubit(n) == <<1, n>>

QubitLess(a, b) == a[1] < b[1] \/ (a[1] = b[1] /\ a[2] < b[2])

RECURSIVE SortedQubits(_)
SortedQubits(S) ==
    IF S = {} THEN << >>
    ELSE LET m == CHOOSE x \in S : \A y \in S \ {x} : QubitLess(x, y)
         IN <<m>> \o SortedQubits(S \ {m})

MinQubit(S) == CHOOSE x \in S : \A y \in S \ {x} : QubitLess(x, y)

\* circuit.all_qubits() of a sequence of moments
AllQubits(moments) == UNION {UNION moments[j] : j \in DOMAIN moments}

\* ---------------------------------------------------------------- inputs

\* the qubits of the caller's circuit
Qubits(nq) == {LineQubit(n) : n \in 0 .. nq - 1}

\* one- and two-qubit operations
Operations(qubits) == {op \in SUBSET qubits : Cardinality(op) \in {1, 2}}

\* cirq.Moment: operations on pairwise disjoint qubits
Moments(qubits) ==
    {m \in SUBSET Operations(qubits) : \A a, b \in m : a # b => a \cap b = {}}

\* the circuits of at most mm moments on nq qubits
Circuits(nq, mm) == UNION {[1 .. n -> Moments(Qubits(nq))] : n \in 0 .. mm}

\* the (moment_index, qubit) pairs a cut list may hold
Cuts(nq, mm) == (0 .. mm) \X Qubits(nq)

\* sorted() on (moment_index, qubit) tuples
CutLeq(a, b) == a[1] < b[1] \/ (a[1] = b[1] /\ (a[2] = b[2] \/ QubitLess(a[2], b[2])))

NoCut == <<-1, LineQubit(0)>>

\* ---------------------------------------------------------------- cut_circuit

\* circuit[:cut_moment_index].all_qubits()
UpstreamQubits(circ, t) == AllQubits(SubSeq(circ, 1, Min(t, Len(circ))))

\* a scan that starts at the first moment of the circuit
ReplacementsFromTheStart(circ, t, old_qubit) ==
    {<<j, op>> \in (0 .. Len(circ) - 1) \X UNION {circ[i] : i \in DOMAIN circ} :
        /\ op \in circ[j + 1]
        /\ old_qubit \in op}

\* the replacements list: one (moment_index, old_op) per moment at or after the cut
Replacements(circ, t, old_qubit) ==
    {<<j, op>> \in (t .. Len(circ) - 1) \X UNION {circ[i] : i \in DOMAIN circ} :
        /\ op \in circ[j + 1]
        /\ old_qubit \in op}

\* old_op.transform_qubits({old_qubit: new_qubit})
TransformQubits(op, old_qubit, new_qubit) ==
    {IF q = old_qubit THEN new_qubit ELSE q : q \in op}

\* circuit.batch_replace(replacements)
BatchReplace(circ, reps, old_qubit, new_qubit) ==
    [j \in DOMAIN circ |->
        {IF <<j - 1, op>> \in reps THEN TransformQubits(op, old_qubit, new_qubit) ELSE op :
            op \in circ[j]}]

\* a lookup that forgets the routing map
OldQubitUnrouted(map, cut_qubit) == cut_qubit

\* initial_to_final_qubit_map.get(cut_qubit) or cut_qubit
OldQubit(map, cut_qubit) == IF cut_qubit \in DOMAIN map THEN map[cut_qubit] ELSE cut_qubit

\* the test at the top of the loop body: no operation upstream of the cut
NoUpstream(circ, t, old_qubit) == old_qubit \notin UpstreamQubits(circ, t)

\* a cutter that never notices a cut with nothing downstream of it
NoDownstreamNeverChecked(circ, t, old_qubit) == FALSE

\* the test after the scan: no operation downstream of the cut
NoDownstream(circ, t, old_qubit) == Replacements(circ, t, old_qubit) = {}

\* a counter that stays where it is
CutIndexKept(index) == index

\* cut_index += 1
NextCutIndex(index) == index + 1

\* one iteration of "for cut_moment_index, cut_qubit in sorted(cuts)"
CutStep(cut, max_cuts) ==
    LET t == cut[1]
        cut_qubit == cut[2]
        old_qubit == OldQubit(initial_to_final_qubit_map, cut_qubit)
        new_qubit == NamedQubit(cut_index)
        reps == Replacements(circuit, t, old_qubit)
    IN  /\ pc = "cutting"
        /\ num_cuts < max_cuts
        /\ CutLeq(last_cut, cut)
        /\ last_cut' = cut
        /\ num_cuts' = num_cuts + 1
        /\ IF NoUpstream(circuit, t, old_qubit)
           THEN /\ last_branch' = "no_upstream"
                /\ UNCHANGED <<circuit, quantum_inputs, quantum_outputs,
                               initial_to_final_qubit_map, cut_index>>
           ELSE IF NoDownstream(circuit, t, old_qubit)
           THEN /\ last_branch' = "no_downstream"
                /\ UNCHANGED <<circuit, quantum_inputs, quantum_outputs,
                               initial_to_final_qubit_map, cut_index>>
           ELSE /\ last_branch' = "applied"
                /\ circuit' = BatchReplace(circuit, reps, old_qubit, new_qubit)
                /\ initial_to_final_qubit_map' =
                       Put(initial_to_final_qubit_map, cut_qubit, new_qubit)
                /\ quantum_outputs' = Put(quantum_outputs, old_qubit, cut_index)
                /\ quantum_inputs' = Put(quantum_inputs, new_qubit, cut_index)
                /\ cut_index' = NextCutIndex(cut_index)
        /\ UNCHANGED <<pc, input_circuit, fragments, qubit_order, bit_permutation>>
        /\ UNCHANGED notCut

ApplyCut(nq, mm, max_cuts) == \E cut \in Cuts(nq, mm) : CutStep(cut, max_cuts)

\* a factorization that puts every qubit on its own
IndependentQubitSetsApart(circ) == {{q} : q \in AllQubits(circ)}

\* circuit.get_independent_qubit_sets(): the qubits joined by multi-qubit operations
RECURSIVE Component(_, _)
Component(circ, S) ==
    LET T == S \cup UNION {op \in UNION {circ[j] : j \in DOMAIN circ} : op \cap S # {}}
    IN IF T = S THEN S ELSE Component(circ, T)

IndependentQubitSets(circ) == {Component(circ, {q}) : q \in AllQubits(circ)}

\* sorted(..., key=min)
RECURSIVE SortedByMin(_)
SortedByMin(sets) ==
    IF sets = {} THEN << >>
    ELSE LET s == CHOOSE x \in sets :
                      \A y \in sets \ {x} : QubitLess(MinQubit(x), MinQubit(y))
         IN <<s>> \o SortedByMin(sets \ {s})

\* m[qubits] of one moment: the operations of a factor
FactorMoment(moment, qubits) == {op \in moment : op \subseteq qubits}

\* circuit.factorize()
Factorize(circ) ==
    LET factors == SortedByMin(IndependentQubitSets(circ))
    IN IF Len(factors) = 1 THEN <<circ>>
       ELSE [i \in DOMAIN factors |->
                [j \in DOMAIN circ |-> FactorMoment(circ[j], factors[i])]]

\* a fragment whose circuit outputs still list the qubits that leave through a cut
FragmentKeepsCutOutputs(subcircuit, q_inputs, q_outputs) ==
    [circuit |-> subcircuit,
     quantum_inputs |-> q_inputs,
     quantum_outputs |-> q_outputs,
     circuit_outputs |-> SortedQubits(AllQubits(subcircuit))]

\* Fragment.__init__
Fragment(subcircuit, q_inputs, q_outputs) ==
    [circuit |-> subcircuit,
     quantum_inputs |-> q_inputs,
     quantum_outputs |-> q_outputs,
     circuit_outputs |-> SortedQubits(AllQubits(subcircuit) \ DOMAIN q_outputs)]

\* fragments that are handed all quantum inputs/outputs, not only their own
MakeFragmentsUnrestricted(circ, q_inputs, q_outputs) ==
    LET subcircuits == Factorize(circ)
    IN [i \in DOMAIN subcircuits |->
           [circuit |-> subcircuits[i],
            quantum_inputs |-> q_inputs,
            quantum_outputs |-> q_outputs,
            circuit_outputs |-> SortedQubits(AllQubits(subcircuits[i]) \ DOMAIN q_outputs)]]

\* the loop that builds the fragments dictionary; position i is "fragment_{i-1}"
MakeFragments(circ, q_inputs, q_outputs) ==
    LET subcircuits == Factorize(circ)
    IN [i \in DOMAIN subcircuits |->
           Fragment(subcircuits[i],
                    Restrict(q_inputs, AllQubits(subcircuits[i])),
                    Restrict(q_outputs, AllQubits(subcircuits[i])))]

\* the end of the loop over the cuts (its iteration variables go out of use), and the
\* factorization into fragments
FinishCutting ==
    /\ pc = "cutting"
    /\ pc' = "cut"
    /\ fragments' = MakeFragments(circuit, quantum_inputs, quantum_outputs)
    /\ last_cut' = NoCut
    /\ last_branch' = "none"
    /\ num_cuts' = 0
    /\ UNCHANGED <<input_circuit, circuit, quantum_inputs, quantum_outputs,
                   initial_to_final_qubit_map, cut_index, qubit_order, bit_permutation>>
    /\ UNCHANGED notCut

\* ---------------------------------------------------------------- get_outcome_combiner

\* circuit_qubits: per fragment, circuit.all_qubits() - set(quantum_inputs)
CircuitQubits(frags) ==
    UNION {AllQubits(frags[i].circuit) \ DOMAIN frags[i].quantum_inputs : i \in DOMAIN frags}

\* qubit_to_cut: the update of every fragment's quantum_outputs
QubitToCut(frags) ==
    LET keys == UNION {DOMAIN frags[i].quantum_outputs : i \in DOMAIN frags}
    IN [q \in keys |->
           LET i == CHOOSE i \in DOMAIN frags : q \in DOMAIN frags[i].quantum_outputs
           IN frags[i].quantum_outputs[q]]

\* cut_to_qubit: {cut: qubit for qubit, cut in quantum_inputs.items()} of every fragment
CutToQubit(frags) ==
    LET pairs == UNION {{<<frags[i].quantum_inputs[q], q>> : q \in DOMAIN frags[i].quantum_inputs} :
                            i \in DOMAIN frags}
    IN [c \in {p[1] : p \in pairs} |-> (CHOOSE p \in pairs : p[1] = c)[2]]

\* a map that follows the first cut only
FollowCutsOnce(frags, qubit) ==
    IF qubit \in DOMAIN QubitToCut(frags)
    THEN CutToQubit(frags)[QubitToCut(frags)[qubit]]
    ELSE qubit

\* the while loop: follow qubit -> cut-name -> qubit until no cut leaves the qubit
RECURSIVE FollowCuts(_, _)
FollowCuts(frags, qubit) ==
    IF qubit \in DOMAIN QubitToCut(frags)
    THEN FollowCuts(frags, CutToQubit(frags)[QubitToCut(frags)[qubit]])
    ELSE qubit

\* the combiner's own initial_to_final_qubit_map
CombinerQubitMap(frags) == [q \in CircuitQubits(frags) |-> FollowCuts(frags, q)]

\* [initial_to_final_qubit_map.get(qubit) or qubit for qubit in qubit_order]
FinalQubitOrder(frags, order) ==
    [i \in DOMAIN order |-> OldQubit(CombinerQubitMap(frags), order[i])]

RECURSIVE Concat(_)
Concat(seqs) == IF seqs = << >> THEN << >> ELSE Head(seqs) \o Concat(Tail(seqs))

\* functools.reduce(operator.add, fragment_outputs)
ConcatenatedQubits(frags) == Concat([i \in DOMAIN frags |-> frags[i].circuit_outputs])

\* list.index: the Python (0-based) index of the first occurrence
IndexOf(seq, x) == (CHOOSE i \in DOMAIN seq : seq[i] = x /\ \A j \in 1 .. i - 1 : seq[j] # x) - 1

\* a combiner that keeps the fragment-then-local concatenation order
BitPermutationConcatenationOrder(frags, order) == [i \in DOMAIN order |-> i - 1]

\* [contacenated_qubits.index(qubit) for qubit in final_qubit_order]
BitPermutation(frags, order) ==
    LET final_qubit_order == FinalQubitOrder(frags, order)
    IN [i \in DOMAIN order |-> IndexOf(ConcatenatedQubits(frags), final_qubit_order[i])]

\* the closure outcome_combiner(fragment_substrings); substrings[i] is the BitString of
\* "fragment_{i-1}"
OutcomeCombiner(perm, substrings) ==
    LET concatenated_substring == Concat(substrings)
    IN [i \in DOMAIN perm |-> concatenated_substring[perm[i] + 1]]

\* the orderings of a set of qubits (a caller's qubit_order lists every qubit once)
RECURSIVE Orders(_)
Orders(S) ==
    IF S = {} THEN {<< >>} ELSE UNION {{<<x>> \o o : o \in Orders(S \ {x})} : x \in S}

\* the body of get_outcome_combiner for the order it works with
CombinerBody(order) ==
    /\ qubit_order' = order
    /\ IF fragments = << >>
       THEN \* functools.reduce of an empty list raises TypeError
            /\ pc' = "combiner_error"
            /\ bit_permutation' = << >>
       ELSE IF \E i \in DOMAIN order :
                   \A k \in DOMAIN ConcatenatedQubits(fragments) :
                       ConcatenatedQubits(fragments)[k] # FinalQubitOrder(fragments, order)[i]
       THEN \* contacenated_qubits.index of a qubit that is not in the list raises ValueError
            /\ pc' = "combiner_error"
            /\ bit_permutation' = << >>
       ELSE /\ pc' = "combined"
            /\ bit_permutation' = BitPermutation(fragments, order)
    /\ UNCHANGED <<input_circuit, circuit, quantum_inputs, quantum_outputs,
                   initial_to_final_qubit_map, cut_index, last_cut, last_branch, num_cuts,
                   fragments>>
    /\ UNCHANGED notCut

\* get_outcome_combiner(fragments, qubit_order) with an order given by the caller
GetOutcomeCombiner ==
    /\ pc = "cut"
    /\ \E order \in Orders(CircuitQubits(fragments)) : CombinerBody(order)

\* get_outcome_combiner(fragments): qubit_order = sorted(circuit_qubits)
GetOutcomeCombinerDefault ==
    /\ pc = "cut"
    /\ CombinerBody(SortedQubits(CircuitQubits(fragments)))

\* ---------------------------------------------------------------- correct_probability_distribution

(***************************************************************************)
(* The correction divides by N - idx - 1 for idx = 0, 1, ...  Every pass   *)
(* adds one share to all values that are left, so the value the loop reads *)
(* at idx is a value of the array plus (a sum of values) / (N - idx), and  *)
(* its share is a sum of values over (N - idx) * (N - idx - 1).  Two       *)
(* numbers that follow one another have no common factor, so the product   *)
(* divides the least common multiple L of 1 .. N, and every quotient is    *)
(* exact once the values are multiples of L.  The model holds a real value *)
(* v as the integer v * Scale(N): the correction is positively             *)
(* homogeneous, so it returns Scale(N) times what the code returns for the *)
(* unscaled array.                                                         *)
(***************************************************************************)
RECURSIVE Gcd(_, _)
Gcd(a, b) == IF b = 0 THEN a ELSE Gcd(b, a % b)

\* the least common multiple of 1 .. n
RECURSIVE Scale(_)
Scale(n) == IF n <= 1 THEN 1 ELSE (Scale(n - 1) * n) \div Gcd(Scale(n - 1), n)

RECURSIVE SumSeq(_)
SumSeq(seq) == IF seq = << >> THEN 0 ELSE Head(seq) + SumSeq(Tail(seq))

\* probabilities.size
Size(arr) == IF arr = << >> THEN 0 ELSE Len(arr) * Len(arr[1])

\* probabilities.ravel(): the rows one after the other
Ravel(arr) == Concat(arr)

\* the shape is set back: corrected_probabilities.shape = probabilities.shape
Reshape(flat, rows, width) ==
    [r \in 1 .. rows |-> [c \in 1 .. width |-> flat[(r - 1) * width + c]]]

\* the arrangements of the (0-based) positions in `left` in ascending order of value
RECURSIVE AscendingOrders(_, _)
AscendingOrders(flat, left) ==
    IF left = {} THEN {<< >>}
    ELSE UNION {{<<k - 1>> \o rest : rest \in AscendingOrders(flat, left \ {k})} :
                   k \in {m \in left : \A n \in left : flat[m] <= flat[n]}}

\* np.argsort(flat): the default sort is not stable, so positions of equal values come
\* in any order
ArgSorts(flat) == AscendingOrders(flat, DOMAIN flat)

\* flat[order]: indexing with an array of (0-based) positions
Take(flat, order) == [i \in DOMAIN order |-> flat[order[i] + 1]]

\* a loop that sets negative values to 0 and shares nothing out
RECURSIVE RedistributeClipOnly(_, _)
RedistributeClipOnly(sorted, idx) ==
    IF idx >= Len(sorted) \/ sorted[idx + 1] >= 0 THEN sorted
    ELSE RedistributeClipOnly([sorted EXCEPT ![idx + 1] = 0], idx + 1)

\* a loop that tests the values as they were before any share was added
RECURSIVE RedistributeStaleFrom(_, _, _)
RedistributeStaleFrom(original, sorted, idx) ==
    IF idx >= Len(sorted) \/ original[idx + 1] >= 0 THEN sorted
    ELSE LET val == sorted[idx + 1]
             num_vals_remaining == Len(sorted) - idx - 1
         IN RedistributeStaleFrom(
                original,
                [j \in DOMAIN sorted |->
                    IF j = idx + 1 THEN 0
                    ELSE IF j > idx + 1 THEN sorted[j] + (val \div num_vals_remaining)
                    ELSE sorted[j]],
                idx + 1)

RedistributeStale(sorted, idx) == RedistributeStaleFrom(sorted, sorted, idx)

\* a pass that shares the value out among all other values, left and right
ShareOutToAll(sorted, idx) ==
    LET val == sorted[idx + 1]
    IN [j \in DOMAIN sorted |->
           IF j = idx + 1 THEN 0 ELSE sorted[j] + (val \div (Len(sorted) - 1))]

\* one pass of the loop body at position idx, whose value val is negative:
\* sorted_probabilities[idx] = 0; sorted_probabilities[idx + 1 :] += val / num_vals_remaining
ShareOut(sorted, idx) ==
    LET val == sorted[idx + 1]
        num_vals_remaining == Len(sorted) - idx - 1
    IN [j \in DOMAIN sorted |->
           IF j = idx + 1 THEN 0
           ELSE IF j > idx + 1 THEN sorted[j] + (val \div num_vals_remaining)
           ELSE sorted[j]]

\* the loop "for idx, val in enumerate(sorted_probabilities)" from position idx on:
\* val is read from the array as it stands when the loop gets there
RECURSIVE Redistribute(_, _)
Redistribute(sorted, idx) ==
    IF idx >= Len(sorted) THEN sorted
    ELSE IF sorted[idx + 1] >= 0 THEN sorted
    ELSE Redistribute(ShareOut(sorted, idx), idx + 1)

\* the arrays the same loop passes through: the array it starts from at position idx,
\* then the array after every pass
RECURSIVE ScanTrace(_, _)
ScanTrace(sorted, idx) ==
    IF idx >= Len(sorted) THEN <<sorted>>
    ELSE IF sorted[idx + 1] >= 0 THEN <<sorted>>
    ELSE <<sorted>> \o ScanTrace(ShareOut(sorted, idx), idx + 1)

\* the values of flat in the model's scale
Times(flat, scale) == [i \in DOMAIN flat |-> flat[i] * scale]

\* sorted_probabilities = probabilities.ravel()[prob_order], in the model's scale
SortedProbabilities(arr, prob_order) ==
    Take(Times(Ravel(arr), Scale(Size(arr))), prob_order)

\* a correction that returns the values in sorted order
InverseSortForgotten(order) == [i \in DOMAIN order |-> i - 1]

\* a correction that applies the arrangement a second time
InverseSortAsOrder(order) == order

\* np.arange(size)[np.argsort(prob_order)]: the inverse of the arrangement
InverseSort(order) ==
    [i \in DOMAIN order |-> (CHOOSE k \in DOMAIN order : order[k] = i - 1) - 1]

\* correct_probability_distribution(arr), with prob_order the outcome of np.argsort;
\* the result is Scale(arr.size) times the array the code returns
CorrectProbabilityDistribution(arr, prob_order) ==
    LET flat == Times(Ravel(arr), Scale(Size(arr)))
        sorted_probabilities == Redistribute(Take(flat, prob_order), 0)
        inverse_sort == InverseSort(prob_order)
    IN Reshape(Take(sorted_probabilities, inverse_sort), Len(arr), Len(arr[1]))

\* the arrays of eigenvalues: rows blocks of width values each
Arrays(max_entries, max_abs) ==
    UNION {[1 .. rows -> [1 .. width -> -max_abs .. max_abs]] :
              <<rows, width>> \in {rw \in (1 .. max_entries) \X (1 .. max_entries) :
                                      rw[1] * rw[2] <= max_entries}}

\* eigenvalues = correct_probability_distribution(eigenvalues)
Correct ==
    /\ mlc_pc = "input"
    /\ \E prob_order \in ArgSorts(Ravel(probabilities)) :
           /\ corrected' = CorrectProbabilityDistribution(probabilities, prob_order)
           /\ sorted_trace' = ScanTrace(SortedProbabilities(probabilities, prob_order), 0)
    /\ mlc_pc' = "corrected"
    /\ UNCHANGED <<probabilities, recorrected>>
    /\ UNCHANGED notMlc

\* the correction applied to its own output
CorrectAgain ==
    /\ mlc_pc = "corrected"
    /\ \E prob_order \in ArgSorts(Ravel(corrected)) :
           recorrected' = CorrectProbabilityDistribution(corrected, prob_order)
    /\ mlc_pc' = "recorrected"
    /\ UNCHANGED <<probabilities, corrected, sorted_trace>>
    /\ UNCHANGED notMlc

InitMlc ==
    /\ mlc_pc = "input"
    /\ probabilities \in Arrays(MaxEntries, MaxAbsValue)
    /\ corrected = << >>
    /\ recorrected = << >>
    /\ sorted_trace = << >>

NextMlc == Correct \/ CorrectAgain

\* ---------------------------------------------------------------- the operation builders

\* PAULI_OPS of classes/const.py
PAULI_OPS == <<"Z", "X", "Y">>

\* the names a caller may pass as prep_basis; "Clifford" is not one the code knows
PrepBasisNames == {"Pauli", "SIC", "Clifford"}

\* the labels a caller may pass as preparation states; "T+" is not one the code knows
PrepStateLabels == {"Z+", "Z-", "X+", "X-", "Y+", "Y-", "S0", "S1", "S2", "S3", "T+"}

\* the labels a caller may pass as measurement bases; "W" is not one the code knows
MeasBasisLabels == {"Z", "X", "Y", "W"}

\* the labels of the type declarations PrepBasis, PrepState and MeasBasis
RecognizedPrepBases == {"Pauli", "SIC"}

\* the basis of a call that names none
DEFAULT_PREP_BASIS == "SIC"
RecognizedPrepStates == {"Z+", "Z-", "X+", "X-", "Y+", "Y-", "S0", "S1", "S2", "S3"}
RecognizedMeasBases == {"Z", "X", "Y"}

\* a result: the value returned (or yielded so far), and whether ValueError was raised
Returned(value) == [raised |-> FALSE, value |-> value]
Raised(value) == [raised |-> TRUE, value |-> value]

\* get_prep_states(prep_basis)
GetPrepStates(prep_basis) ==
    IF prep_basis = "Pauli" THEN Returned(<<"Z+", "Z-", "X+", "X-", "Y+", "Y-">>)
    ELSE IF prep_basis = "SIC" THEN Returned(<<"S0", "S1", "S2", "S3">>)
    ELSE Raised(<< >>)

\* the operations one pass of the loop of prep_state_ops yields on qubit q; an
\* operation is <<gate, qubit>>
PrepOps(prep_state, q) ==
    IF prep_state = "Z+" \/ prep_state = "S0" THEN Returned(<< >>)
    ELSE IF prep_state = "Z-" THEN Returned(<< <<"X", q>> >>)
    ELSE IF prep_state = "X+" THEN Returned(<< <<"H", q>> >>)
    ELSE IF prep_state = "X-" THEN Returned(<< <<"X", q>>, <<"H", q>> >>)
    ELSE IF prep_state = "Y+" THEN Returned(<< <<"H", q>>, <<"S", q>> >>)
    ELSE IF prep_state = "Y-" THEN Returned(<< <<"H", q>>, <<"S**-1", q>> >>)
    ELSE IF prep_state = "S1" THEN Returned(<< <<"Ry(polar)", q>> >>)
    ELSE IF prep_state = "S2" THEN Returned(<< <<"Ry(polar)", q>>, <<"Rz(2pi/3)", q>> >>)
    ELSE IF prep_state = "S3" THEN Returned(<< <<"Ry(polar)", q>>, <<"Rz(4pi/3)", q>> >>)
    ELSE Raised(<< >>)

\* prep_state_ops(prep_states, qubits) consumed to its end, qubits being LineQubit(0),
\* LineQubit(1), ...: the operations yielded, up to the label that raises
RECURSIVE PrepStateOpsFrom(_, _)
PrepStateOpsFrom(prep_states, i) ==
    IF i > Len(prep_states) THEN Returned(<< >>)
    ELSE LET here == PrepOps(prep_states[i], LineQubit(i - 1))
         IN IF here.raised THEN here
            ELSE LET rest == PrepStateOpsFrom(prep_states, i + 1)
                 IN [raised |-> rest.raised, value |-> here.value \o rest.value]

PrepStateOps(prep_states) == PrepStateOpsFrom(prep_states, 1)

\* the operations one pass of the loop of meas_basis_ops yields on qubit q
MeasOps(basis, q) ==
    IF basis = "X" THEN << <<"H", q>> >>
    ELSE IF basis = "Y" THEN << <<"S**-1", q>>, <<"H", q>> >>
    ELSE << >>

\* meas_basis_ops(meas_bases, qubits) consumed to its end
RECURSIVE MeasBasisOpsFrom(_, _)
MeasBasisOpsFrom(meas_bases, i) ==
    IF i > Len(meas_bases) THEN << >>
    ELSE MeasOps(meas_bases[i], LineQubit(i - 1)) \o MeasBasisOpsFrom(meas_bases, i + 1)

MeasBasisOps(meas_bases) == Returned(MeasBasisOpsFrom(meas_bases, 1))

\* the tuples of at most n labels
Tuples(labels, n) == UNION {[1 .. k -> labels] : k \in 0 .. n}

CallGetPrepStates ==
    /\ ops_pc = "called"
    /\ ops_call.fn = "get_prep_states"
    /\ ops_result' = GetPrepStates(ops_call.arg)
    /\ ops_pc' = "returned"
    /\ UNCHANGED ops_call
    /\ UNCHANGED notOps

CallPrepStateOps ==
    /\ ops_pc = "called"
    /\ ops_call.fn = "prep_state_ops"
    /\ ops_result' = PrepStateOps(ops_call.arg)
    /\ ops_pc' = "returned"
    /\ UNCHANGED ops_call
    /\ UNCHANGED notOps

CallMeasBasisOps ==
    /\ ops_pc = "called"
    /\ ops_call.fn = "meas_basis_ops"
    /\ ops_result' = MeasBasisOps(ops_call.arg)
    /\ ops_pc' = "returned"
    /\ UNCHANGED ops_call
    /\ UNCHANGED notOps

InitOps ==
    /\ ops_pc = "called"
    /\ ops_call \in
          [fn : {"get_prep_states"}, arg : PrepBasisNames]
          \cup [fn : {"prep_state_ops"}, arg : Tuples(PrepStateLabels, MaxLabels)]
          \cup [fn : {"meas_basis_ops"}, arg : Tuples(MeasBasisLabels, MaxLabels)]
    /\ ops_result = Returned(<< >>)

NextOps == CallGetPrepStates \/ CallPrepStateOps \/ CallMeasBasisOps

\* ---------------------------------------------------------------- build_fragment_models

\* A rank cutoff 10^-e is held as its exponent e; the three signatures default to 1e-8.
BuildFragmentModelsDefault == 8
BuildSingleFragmentModelDefault == 8
BuildConditionalFragmentModelDefault == 8

\* the bitstrings of n bits
BitStrings(n) == [1 .. n -> {0, 1}]

\* build_conditional_fragment_model(data, substring, rank_cutoff=...): the cond that
\* scipy.linalg.lstsq is given for this block
BuildConditionalFragmentModel(substrings, substring, rank_cutoff) == rank_cutoff

\* build_single_fragment_model(data, fragment_key=..., rank_cutoff=...): one call of
\* build_conditional_fragment_model(fragment_tomography_data, substring) per substring
BuildSingleFragmentModel(substrings, fragment_key, rank_cutoff) ==
    [substring \in substrings |->
        BuildConditionalFragmentModel(substrings, substring,
                                      BuildConditionalFragmentModelDefault)]

\* build_fragment_models(dict, rank_cutoff=...); `given` tells whether the caller
\* passed a rank_cutoff
BuildFragmentModels(data_dict, given, rank_cutoff) ==
    LET cutoff == IF given THEN rank_cutoff ELSE BuildFragmentModelsDefault
    IN [fragment_key \in DOMAIN data_dict |->
           BuildSingleFragmentModel(data_dict[fragment_key], fragment_key, cutoff)]

\* the values of a dictionary of cut-names in insertion order: cut_circuit inserts the
\* names in increasing order
RECURSIVE ValuesInOrder(_)
ValuesInOrder(names) ==
    IF names = {} THEN << >>
    ELSE LET first == CHOOSE n \in names : \A other \in names : n <= other
         IN <<first>> \o ValuesInOrder(names \ {first})

\* a tensor that is labelled by the cuts at the quantum inputs only
CutIndicesInputsOnly(frag) ==
    ValuesInOrder({frag.quantum_inputs[q] : q \in DOMAIN frag.quantum_inputs})

\* cut_indices = cuts_at_inputs + cuts_at_outputs, the index labels of a block's tensor
CutIndices(frag) ==
    ValuesInOrder({frag.quantum_inputs[q] : q \in DOMAIN frag.quantum_inputs})
        \o ValuesInOrder({frag.quantum_outputs[q] : q \in DOMAIN frag.quantum_outputs})

\* the tomography data of a fragment, as the set of circuit-output substrings it holds
SubstringSets(max_outputs) ==
    UNION {SUBSET BitStrings(c) \ {{}} : c \in 0 .. max_outputs}

\* the dictionaries of tomography data of at most MaxModels fragments
TomographyDataDicts ==
    UNION {[1 .. n -> SubstringSets(MaxCircuitOutputs)] : n \in 1 .. MaxModels}

Build ==
    /\ build_pc = "called"
    /\ lstsq_cond' = BuildFragmentModels(build_call.data, build_call.given,
                                         build_call.rank_cutoff)
    /\ build_pc' = "built"
    /\ UNCHANGED build_call
    /\ UNCHANGED notBuild

\* a call without rank_cutoff carries the placeholder 0, which is never read
InitBuild ==
    /\ build_pc = "called"
    /\ build_call \in
          [data : TomographyDataDicts, given : {TRUE}, rank_cutoff : 0 .. MaxCutoffExponent]
          \cup [data : TomographyDataDicts, given : {FALSE}, rank_cutoff : {0}]
    /\ lstsq_cond = << >>

NextBuild == Build

\* ---------------------------------------------------------------- perform_fragment_tomography

RECURSIVE Power(_, _)
Power(b, e) == IF e = 0 THEN 1 ELSE b * Power(b, e - 1)

\* num_variants: the sum over the fragments of
\* len(prep_basis) ** len(quantum_inputs) * len(PAULI_OPS) ** len(quantum_outputs),
\* prep_basis being the name of the basis, a string
RECURSIVE NumVariants(_, _)
NumVariants(frags, prep_basis) ==
    IF frags = << >> THEN 0
    ELSE Power(Len(prep_basis), Head(frags).num_inputs)
             * Power(Len(PAULI_OPS), Head(frags).num_outputs)
         + NumVariants(Tail(frags), prep_basis)

\* the settings the two nested loops of perform_single_fragment_tomography run through:
\* product(get_prep_states(prep_basis), repeat=k) x product(PAULI_OPS, repeat=m)
NumSettingsEnumerated(frag, prep_basis) ==
    Power(Len(GetPrepStates(prep_basis).value), frag.num_inputs)
        * Power(Len(PAULI_OPS), frag.num_outputs)

\* a fragment, as far as the budget goes: its numbers of quantum inputs and outputs
FragmentShapes(max_ports) == [num_inputs : 0 .. max_ports, num_outputs : 0 .. max_ports]

\* a tomography that samples whenever a budget is passed, be it 0
TomographyModeOfGivenBudget(given, budget) == IF given THEN "sampling" ELSE "exact"

\* `if repetitions_per_variant:` of perform_single_fragment_tomography: a budget that is
\* neither None nor 0 makes the tomography sample, any other lets it compute exactly
TomographyMode(given, budget) == IF given /\ budget # 0 THEN "sampling" ELSE "exact"

PerformFragmentTomography ==
    /\ tomo_pc = "called"
    /\ LET num_variants == NumVariants(tomo_call.fragments, tomo_call.prep_basis)
       IN IF ~tomo_call.given
          THEN \* None // num_variants raises TypeError
               /\ tomo_pc' = "type_error"
               /\ UNCHANGED <<repetitions_per_variant, tomography_modes>>
          ELSE IF num_variants = 0
          THEN \* repetitions // 0 raises ZeroDivisionError
               /\ tomo_pc' = "error"
               /\ UNCHANGED <<repetitions_per_variant, tomography_modes>>
          ELSE /\ tomo_pc' = "done"
               /\ repetitions_per_variant' = tomo_call.repetitions \div num_variants
               /\ tomography_modes' =
                     [f \in DOMAIN tomo_call.fragments |->
                         TomographyMode(TRUE, tomo_call.repetitions \div num_variants)]
    /\ UNCHANGED tomo_call
    /\ UNCHANGED notTomo

InitTomo ==
    /\ tomo_pc = "called"
    /\ tomo_call \in
          [fragments : UNION {[1 .. n -> FragmentShapes(MaxPorts)] : n \in 0 .. MaxFragments},
           prep_basis : RecognizedPrepBases,
           given : {TRUE},
           repetitions : 0 .. MaxRepetitions]
          \cup [fragments :
                    UNION {[1 .. n -> FragmentShapes(MaxPorts)] : n \in 0 .. MaxFragments},
                prep_basis : RecognizedPrepBases,
                given : {FALSE},
                repetitions : {0}]
    /\ repetitions_per_variant = 0
    /\ tomography_modes = << >>

NextTomo == PerformFragmentTomography

InitCut(nq, mm) ==
    /\ pc = "cutting"
    /\ input_circuit \in Circuits(nq, mm)
    /\ circuit = input_circuit
    /\ quantum_inputs = EmptyDict
    /\ quantum_outputs = EmptyDict
    /\ initial_to_final_qubit_map = EmptyDict
    /\ cut_index = 0
    /\ last_cut = NoCut
    /\ last_branch = "none"
    /\ num_cuts = 0
    /\ fragments = << >>
    /\ qubit_order = << >>
    /\ bit_permutation = << >>

NextCut ==
    \/ ApplyCut(NumQubits, MaxMoments, MaxCuts)
    \/ FinishCutting
    \/ GetOutcomeCombiner
    \/ GetOutcomeCombinerDefault

\* ---------------------------------------------------------------- the outcome vector b

\* itertools.product(seq, repeat=n) as the sequence it runs through: the last position
\* advances fastest
RECURSIVE Product(_, _)
Product(seq, n) ==
    IF n = 0 THEN << << >> >>
    ELSE LET rest == Product(seq, n - 1)
         IN [i \in 1 .. Len(seq) * Len(rest) |->
                <<seq[((i - 1) \div Len(rest)) + 1]>> \o rest[((i - 1) % Len(rest)) + 1]]

\* condition_iterator(num_inputs, num_outputs, prep_basis): the conditions
\* (prep_states, meas_bases, meas_outcome) in the order the three nested loops yield them
ConditionIterator(num_inputs, num_outputs, prep_basis) ==
    LET preps == Product(GetPrepStates(prep_basis).value, num_inputs)
        bases == Product(PAULI_OPS, num_outputs)
        outcomes == Product(<<0, 1>>, num_outputs)
    IN [i \in 1 .. Len(preps) * Len(bases) * Len(outcomes) |->
           <<preps[((i - 1) \div (Len(bases) * Len(outcomes))) + 1],
             bases[(((i - 1) \div Len(outcomes)) % Len(bases)) + 1],
             outcomes[((i - 1) % Len(outcomes)) + 1]>>]

\* conditional_fragment_data.get(condition) or 0
GetOrZero(conditional_fragment_data, condition) ==
    IF condition \in DOMAIN conditional_fragment_data
    THEN conditional_fragment_data[condition]
    ELSE 0

\* a comprehension that leaves out the conditions that were not recorded
InterrogationOutcomesRecordedOnly(conditional_fragment_data, num_inputs, num_outputs, prep_basis) ==
    LET conditions == ConditionIterator(num_inputs, num_outputs, prep_basis)
    IN Concat([i \in DOMAIN conditions |->
                  IF conditions[i] \in DOMAIN conditional_fragment_data
                  THEN <<conditional_fragment_data[conditions[i]]>>
                  ELSE << >>])

\* interrogation_outcomes, the vector b: one entry per condition of condition_iterator
InterrogationOutcomes(conditional_fragment_data, num_inputs, num_outputs, prep_basis) ==
    LET conditions == ConditionIterator(num_inputs, num_outputs, prep_basis)
    IN [i \in DOMAIN conditions |-> GetOrZero(conditional_fragment_data, conditions[i])]

\* the subsets of S of at most n elements
RECURSIVE SubsetsUpTo(_, _)
SubsetsUpTo(S, n) ==
    IF n = 0 THEN {{}}
    ELSE LET smaller == SubsetsUpTo(S, n - 1)
         IN smaller \cup UNION {{T \cup {x} : x \in S} : T \in smaller}

\* the data recorded under one substring: a probability (its numerator) for at most
\* MaxRecorded of the conditions; sampling records no entry for an outcome never seen
ConditionalFragmentData(num_inputs, num_outputs, prep_basis) ==
    LET conditions == ConditionIterator(num_inputs, num_outputs, prep_basis)
        recorded == SubsetsUpTo({conditions[i] : i \in DOMAIN conditions}, MaxRecorded)
    IN UNION {[R -> 0 .. MaxProbability] : R \in recorded}

\* the shapes of a fragment: its numbers of quantum inputs and outputs
CutQubitCounts ==
    {nio \in (0 .. MaxCutQubits) \X (0 .. MaxCutQubits) : nio[1] + nio[2] <= MaxCutQubits}

\* the part of build_conditional_fragment_model that builds b
BuildOutcomeVector ==
    /\ vec_pc = "called"
    /\ interrogation_outcomes' =
           InterrogationOutcomes(vec_call.data, vec_call.num_inputs, vec_call.num_outputs,
                                 vec_call.prep_basis)
    /\ vec_pc' = "built"
    /\ UNCHANGED vec_call
    /\ UNCHANGED notVec

InitVec ==
    /\ vec_pc = "called"
    /\ vec_call \in
          UNION {[num_inputs : {nio[1]}, num_outputs : {nio[2]}, prep_basis : {basis},
                  data : ConditionalFragmentData(nio[1], nio[2], basis)] :
                    <<nio, basis>> \in CutQubitCounts \X RecognizedPrepBases}
    /\ interrogation_outcomes = << >>

NextVec == BuildOutcomeVector

\* ---------------------------------------------------------------- the objects the stages share

(***************************************************************************)
(* Which stage writes to which object.  The heap is the sequence of the    *)
(* objects allocated so far and a reference is a position in it.  A        *)
(* Fragment is [circuit, quantum_inputs, quantum_outputs] as references    *)
(* and circuit_outputs as a value; a FragmentModel is the reference of its *)
(* fragment and the references of its blocks, in key order.  An array or a *)
(* tensor is held by its shape; the numbers in it come out of simulation   *)
(* and of linear algebra and are not held.  The circuits that the loops of *)
(* the tomography make are objects too; state vectors and networks are not.*)
(***************************************************************************)

\* a new object
Alloc(h, value) == Append(h, value)

\* an in-place change of an object
Write(h, ref, value) == [h EXCEPT ![ref] = value]

\* a statement that goes on with the very object it was given
CircuitAlias(h, ref) == [heap |-> h, ref |-> ref]

\* cirq.Circuit(circuit) and Circuit.copy(): a new circuit object with the same moments
CircuitCopy(h, ref) == [heap |-> Alloc(h, h[ref]), ref |-> Len(h) + 1]

\* the loop over sorted(cuts) on values: st is [circuit, quantum_inputs, quantum_outputs,
\* map, cut_index], cuts the sorted list still to process
RECURSIVE CutLoop(_, _)
CutLoop(st, cuts) ==
    IF cuts = << >> THEN st
    ELSE LET t == Head(cuts)[1]
             cut_qubit == Head(cuts)[2]
             old_qubit == OldQubit(st.map, cut_qubit)
             new_qubit == NamedQubit(st.cut_index)
         IN IF NoUpstream(st.circuit, t, old_qubit) \/ NoDownstream(st.circuit, t, old_qubit)
            THEN CutLoop(st, Tail(cuts))
            ELSE CutLoop([circuit |-> BatchReplace(st.circuit,
                                                   Replacements(st.circuit, t, old_qubit),
                                                   old_qubit, new_qubit),
                          quantum_inputs |-> Put(st.quantum_inputs, new_qubit, st.cut_index),
                          quantum_outputs |-> Put(st.quantum_outputs, old_qubit, st.cut_index),
                          map |-> Put(st.map, cut_qubit, new_qubit),
                          cut_index |-> NextCutIndex(st.cut_index)],
                         Tail(cuts))

\* the state of the loop before its first iteration
CutLoopStart(circ) ==
    [circuit |-> circ, quantum_inputs |-> EmptyDict, quantum_outputs |-> EmptyDict,
     map |-> EmptyDict, cut_index |-> 0]

\* Fragment(subcircuit, {...}, {...}) for every factor: the constructor copies the
\* circuit and keeps the two new dictionaries
RECURSIVE AllocFragments(_, _, _)
AllocFragments(h, frags, i) ==
    IF i > Len(frags) THEN [heap |-> h, refs |-> << >>]
    ELSE LET base == Len(h)
             h1 == Alloc(h, frags[i].circuit)
             h2 == Alloc(h1, frags[i].quantum_inputs)
             h3 == Alloc(h2, frags[i].quantum_outputs)
             h4 == Alloc(h3, [circuit |-> base + 1,
                              quantum_inputs |-> base + 2,
                              quantum_outputs |-> base + 3,
                              circuit_outputs |-> frags[i].circuit_outputs])
             rest == AllocFragments(h4, frags, i + 1)
         IN [heap |-> rest.heap, refs |-> <<base + 4>> \o rest.refs]

\* cut_circuit(circuit, cuts) on the heap: the rewrites of batch_replace go to the
\* object that line 27 made
CutCircuitOnHeap(h, ref, cuts) ==
    LET local == CircuitCopy(h, ref)
        done == CutLoop(CutLoopStart(local.heap[local.ref]), cuts)
        h1 == IF done.cut_index > 0
              THEN Write(local.heap, local.ref, done.circuit)
              ELSE local.heap
    IN AllocFragments(h1,
                      MakeFragments(done.circuit, done.quantum_inputs, done.quantum_outputs),
                      1)

\* Circuit.append(op) with the default InsertStrategy.EARLIEST: the operation goes to
\* the moment after the last one that acts on one of its qubits, a new moment when
\* that one is the last of the circuit
Earliest(circ, op) ==
    LET busy == {j \in DOMAIN circ : \E other \in circ[j] : other \cap op # {}}
        last == IF busy = {} THEN 0 ELSE CHOOSE j \in busy : \A k \in busy : k <= j
    IN IF last = Len(circ) THEN Append(circ, {op})
       ELSE [circ EXCEPT ![last + 1] = @ \cup {op}]

\* Circuit.append(ops): the operations are placed one after the other
RECURSIVE AppendEarliest(_, _)
AppendEarliest(circ, ops) ==
    IF ops = << >> THEN circ ELSE AppendEarliest(Earliest(circ, Head(ops)), Tail(ops))

\* the operations of prep_state_ops(prep_states, qubits) by the qubits they act on:
\* none for Z+ and S0, one for Z-, X+ and S1, two for X-, Y+, Y-, S2 and S3
RECURSIVE PrepOperations(_, _)
PrepOperations(prep_states, qubits) ==
    IF prep_states = << >> \/ qubits = << >> THEN << >>
    ELSE [k \in DOMAIN PrepOps(Head(prep_states), Head(qubits)).value |-> {Head(qubits)}]
             \o PrepOperations(Tail(prep_states), Tail(qubits))

\* the operations of meas_basis_ops(meas_bases, qubits) by the qubits they act on
RECURSIVE MeasOperations(_, _)
MeasOperations(meas_bases, qubits) ==
    IF meas_bases = << >> \/ qubits = << >> THEN << >>
    ELSE [k \in DOMAIN MeasOps(Head(meas_bases), Head(qubits)) |-> {Head(qubits)}]
             \o MeasOperations(Tail(meas_bases), Tail(qubits))

\* cirq.measure_each(*qubit_order): one measurement per qubit
MeasureEach(qubits) == [k \in DOMAIN qubits |-> {qubits[k]}]

\* the moments that "prep_state_ops(prep_states, quantum_inputs) + fragment.circuit"
\* puts in front of the circuit: Circuit.__radd__ makes Circuit(other) of the
\* operations, which has no moment, one moment or two
PrepMoments(prep_states, qubits) ==
    AppendEarliest(<< >>, PrepOperations(prep_states, qubits))

\* the loop over the preparation settings of one fragment from setting i on.  Line 79
\* makes circuit_with_prep: Circuit.__radd__ copies the fragment's circuit and puts the
\* new moments in front of the copy.  Every measurement setting then makes one more
\* circuit: full_circuit = circuit_with_prep + meas_ops + measurement when sampling,
\* cirq.Circuit(meas_ops) when not.  list(dict.keys()) of a dictionary of at most one
\* entry is held as the sorted list of its keys.
RECURSIVE PrepLoopOnHeap(_, _, _, _, _)
PrepLoopOnHeap(h, fragment, preps, i, mode) ==
    IF i > Len(preps) THEN h
    ELSE LET q_inputs == SortedQubits(DOMAIN h[fragment.quantum_inputs])
             q_outputs == SortedQubits(DOMAIN h[fragment.quantum_outputs])
             measured == fragment.circuit_outputs \o q_outputs
             result == CircuitCopy(h, fragment.circuit)
             h1 == Write(result.heap, result.ref,
                         PrepMoments(preps[i], q_inputs) \o result.heap[result.ref])
             circuit_with_prep == h1[result.ref]
             meas_settings == Product(PAULI_OPS, Len(q_outputs))
             circuits ==
                 [m \in DOMAIN meas_settings |->
                     IF mode = "sampling"
                     THEN AppendEarliest(circuit_with_prep,
                                         MeasOperations(meas_settings[m], q_outputs)
                                             \o MeasureEach(measured))
                     ELSE AppendEarliest(<< >>, MeasOperations(meas_settings[m], q_outputs))]
         IN PrepLoopOnHeap(h1 \o circuits, fragment, preps, i + 1, mode)

\* the keys of tomography_data, in the order they were first stored: every circuit
\* outcome in the order of itertools.product when the probabilities are computed, the
\* circuit outcomes that were observed, in the order they were first observed, when
\* they are sampled
DataSubstrings(mode, num_circuit_outputs) ==
    IF mode = "sampling"
    THEN UNION {Orders(seen) : seen \in (SUBSET BitStrings(num_circuit_outputs)) \ {{}}}
    ELSE {Product(<<0, 1>>, num_circuit_outputs)}

\* the choices of keys for the fragments from position i on
RECURSIVE DataSubstringsOf(_, _, _, _)
DataSubstringsOf(h, frag_refs, i, mode) ==
    IF i > Len(frag_refs) THEN {<< >>}
    ELSE {<<first>> \o rest :
             first \in DataSubstrings(mode, Len(h[frag_refs[i]].circuit_outputs)),
             rest \in DataSubstringsOf(h, frag_refs, i + 1, mode)}

\* perform_single_fragment_tomography for the fragments from position i on: the
\* circuits of the loops, and then the FragmentTomographyData, a new object that keeps
\* the Fragment it was given
RECURSIVE TomographOnHeap(_, _, _, _, _, _)
TomographOnHeap(h, frag_refs, i, prep_basis, mode, substrings) ==
    IF i > Len(frag_refs) THEN [heap |-> h, refs |-> << >>]
    ELSE LET fragment == h[frag_refs[i]]
             preps == Product(GetPrepStates(prep_basis).value,
                              Cardinality(DOMAIN h[fragment.quantum_inputs]))
             h1 == PrepLoopOnHeap(h, fragment, preps, 1, mode)
             h2 == Alloc(h1, [fragment |-> frag_refs[i], substrings |-> substrings[i]])
             rest == TomographOnHeap(h2, frag_refs, i + 1, prep_basis, mode, substrings)
         IN [heap |-> rest.heap, refs |-> <<Len(h2)>> \o rest.refs]

\* len(fragment.quantum_inputs) and len(fragment.quantum_outputs) of the fragments
HeapFragmentShapes(h, frag_refs) ==
    [i \in DOMAIN frag_refs |->
        [num_inputs |-> Cardinality(DOMAIN h[h[frag_refs[i]].quantum_inputs]),
         num_outputs |-> Cardinality(DOMAIN h[h[frag_refs[i]].quantum_outputs])]]

\* n new objects values[1], ..., values[n]
AllocArrays(h, values) ==
    [heap |-> h \o values, refs |-> [i \in DOMAIN values |-> Len(h) + i]]

\* an array of the shape (4,) * num_qubits, which the tensor of a block is
ChoiTensor(num_qubits) == [shape |-> [i \in 1 .. num_qubits |-> 4]]

\* build_single_fragment_model for the data from position i on: every substring has a
\* lstsq call of its own, whose result is reshaped to (4,) * (k + m) and wrapped in a new
\* Tensor, and the model keeps the Fragment object of the data
RECURSIVE BuildOnHeap(_, _, _)
BuildOnHeap(h, data_refs, i) ==
    IF i > Len(data_refs) THEN [heap |-> h, refs |-> << >>]
    ELSE LET data == h[data_refs[i]]
             fragment == HeapFragmentShapes(h, <<data.fragment>>)[1]
             choi_tensor == ChoiTensor(fragment.num_inputs + fragment.num_outputs)
             blocks == AllocArrays(h, [s \in DOMAIN data.substrings |-> choi_tensor])
             h1 == Alloc(blocks.heap, [fragment |-> data.fragment,
                                       substrings |-> data.substrings,
                                       blocks |-> blocks.refs])
             rest == BuildOnHeap(h1, data_refs, i + 1)
         IN [heap |-> rest.heap, refs |-> <<Len(h1)>> \o rest.refs]

\* corrected_single_fragment_model for the models from position i on.  eigh returns new
\* arrays, which are copied into the new array `eigenvalues` of shape
\* (num_blocks, 2 ** num_qubits); in correct_probability_distribution,
\* ravel()[prob_order] is a new array of probabilities.size values, to which the loop
\* writes; [inverse_sort] is a new array again, whose shape is then set in place to
\* that of `eigenvalues`; every corrected block gets a new array and a new Tensor, and
\* the new FragmentModel keeps the Fragment object
RECURSIVE CorrectOnHeap(_, _, _)
CorrectOnHeap(h, refs, i) ==
    IF i > Len(refs) THEN [heap |-> h, refs |-> << >>]
    ELSE LET model == h[refs[i]]
             fragment == HeapFragmentShapes(h, <<model.fragment>>)[1]
             num_qubits == fragment.num_inputs + fragment.num_outputs
             eigenvalues == [shape |-> <<Len(model.blocks), 2 ^ num_qubits>>]
             h1 == Alloc(h, eigenvalues)
             sorted_probabilities == [shape |-> <<Len(model.blocks) * (2 ^ num_qubits)>>]
             h2 == Alloc(h1, sorted_probabilities)
             h3 == Alloc(h2, [shape |-> sorted_probabilities.shape])
             h4 == Write(h3, Len(h3), [shape |-> eigenvalues.shape])
             blocks == AllocArrays(h4, [b \in DOMAIN model.blocks |-> ChoiTensor(num_qubits)])
             h5 == Alloc(blocks.heap, [fragment |-> model.fragment,
                                       substrings |-> model.substrings,
                                       blocks |-> blocks.refs])
             rest == CorrectOnHeap(h5, refs, i + 1)
         IN [heap |-> rest.heap, refs |-> <<Len(h5)>> \o rest.refs]

\* recombine_fragment_models: TensorNetwork copies the block tensors it is given, and
\* the distribution is a new dictionary, held here by the number of blocks per model
RecombineOnHeap(h, refs) ==
    Alloc(h, [i \in DOMAIN refs |-> Len(h[refs[i]].blocks)])

\* the head of get_fidelities: the outcomes of the full circuit are sampled.  With
\* repetitions None np.random.choice returns one number, and collections.Counter of a
\* number raises TypeError.  The arrays and the dictionary of the head are handed to no
\* stage and are not held.
SampleFullCircuit ==
    /\ pure_pc = "start"
    /\ pure_pc' = IF pure_call.given THEN "sampled" ELSE "sample_error"
    /\ UNCHANGED <<heap, pure_call, circuit_ref, fragment_refs, tomography_refs, model_refs,
                   corrected_refs>>
    /\ UNCHANGED notPure

StageCutCircuit ==
    /\ pure_pc = "sampled"
    /\ LET done == CutCircuitOnHeap(heap, circuit_ref, pure_call.cuts)
       IN /\ heap' = done.heap
          /\ fragment_refs' = done.refs
    /\ pure_pc' = "cut"
    /\ UNCHANGED <<pure_call, circuit_ref, tomography_refs, model_refs, corrected_refs>>
    /\ UNCHANGED notPure

\* perform_fragment_tomography(fragments, prep_basis, repetitions): the budget of
\* line 32, and then the tomography of every fragment
StagePerformFragmentTomography ==
    /\ pure_pc = "cut"
    /\ LET num_variants == NumVariants(HeapFragmentShapes(heap, fragment_refs),
                                       pure_call.prep_basis)
       IN IF ~pure_call.given \/ num_variants = 0
          THEN \* None // num_variants raises TypeError, repetitions // 0
               \* ZeroDivisionError
               /\ pure_pc' = "tomography_error"
               /\ UNCHANGED <<heap, tomography_refs>>
          ELSE LET mode == TomographyMode(TRUE, pure_call.repetitions \div num_variants)
               IN \E substrings \in DataSubstringsOf(heap, fragment_refs, 1, mode) :
                      LET done == TomographOnHeap(heap, fragment_refs, 1,
                                                  pure_call.prep_basis, mode, substrings)
                      IN /\ heap' = done.heap
                         /\ tomography_refs' = done.refs
                         /\ pure_pc' = "tomographed"
    /\ UNCHANGED <<pure_call, circuit_ref, fragment_refs, model_refs, corrected_refs>>
    /\ UNCHANGED notPure

\* build_fragment_models(tomography_data)
StageBuildFragmentModels ==
    /\ pure_pc = "tomographed"
    /\ LET done == BuildOnHeap(heap, tomography_refs, 1)
       IN /\ heap' = done.heap
          /\ model_refs' = done.refs
    /\ pure_pc' = "built"
    /\ UNCHANGED <<pure_call, circuit_ref, fragment_refs, tomography_refs, corrected_refs>>
    /\ UNCHANGED notPure

StageCorrectedFragmentModels ==
    /\ pure_pc = "built"
    /\ LET done == CorrectOnHeap(heap, model_refs, 1)
       IN /\ heap' = done.heap
          /\ corrected_refs' = done.refs
    /\ pure_pc' = "corrected"
    /\ UNCHANGED <<pure_call, circuit_ref, fragment_refs, tomography_refs, model_refs>>
    /\ UNCHANGED notPure

\* the models handed to the recombination: after the correction the direct models are
\* recombined first, the corrected ones second
RecombinedRefs == IF pure_pc = "corrected" THEN model_refs ELSE corrected_refs

\* recombine_fragment_models(direct_models), then recombine_fragment_models(likely_models)
StageRecombineFragmentModels ==
    /\ pure_pc \in {"corrected", "recombined_direct"}
    /\ IF RecombinedRefs = << >>
       THEN \* without a model the call raises (functools.reduce of an empty list)
            /\ pure_pc' = "recombine_error"
            /\ UNCHANGED heap
       ELSE /\ pure_pc' = IF pure_pc = "corrected" THEN "recombined_direct" ELSE "recombined"
            /\ heap' = RecombineOnHeap(heap, RecombinedRefs)
    /\ UNCHANGED <<pure_call, circuit_ref, fragment_refs, tomography_refs, model_refs,
                   corrected_refs>>
    /\ UNCHANGED notPure

\* the cut lists of at most one cut
CutLists(nq, mm) == {<< >>} \cup {<<cut>> : cut \in Cuts(nq, mm)}

\* the caller's circuit and the arguments of the pipeline; the tomography is called
\* without a prep_basis, so the basis is the default one
InitPure ==
    /\ pure_pc = "start"
    /\ \E circ \in Circuits(SharedQubits, SharedMoments) : heap = <<circ>>
    /\ circuit_ref = 1
    /\ pure_call \in
          [cuts : CutLists(SharedQubits, SharedMoments),
           prep_basis : {DEFAULT_PREP_BASIS}, given : {TRUE}, repetitions : {0, LargeBudget}]
          \cup [cuts : CutLists(SharedQubits, SharedMoments),
                prep_basis : {DEFAULT_PREP_BASIS}, given : {FALSE}, repetitions : {0}]
    /\ fragment_refs = << >>
    /\ tomography_refs = << >>
    /\ model_refs = << >>
    /\ corrected_refs = << >>

NextPure ==
    \/ SampleFullCircuit
    \/ StageCutCircuit
    \/ StagePerformFragmentTomography
    \/ StageBuildFragmentModels
    \/ StageCorrectedFragmentModels
    \/ StageRecombineFragmentModels

\* ---------------------------------------------------------------- perform_single_fragment_tomography

Max(a, b) == IF a > b THEN a ELSE b

\* settings whose measurement bases are taken once per quantum input
SettingsMeasuredPerInput(num_inputs, num_outputs, prep_basis) ==
    LET preps == Product(GetPrepStates(prep_basis).value, num_inputs)
        bases == Product(PAULI_OPS, num_inputs)
    IN [i \in 1 .. Len(preps) * Len(bases) |->
           <<preps[((i - 1) \div Len(bases)) + 1], bases[((i - 1) % Len(bases)) + 1]>>]

\* the (prep_states, meas_bases) pairs in the order the two nested loops run through them:
\* for prep_states in product(get_prep_states(prep_basis), repeat=len(quantum_inputs)):
\*     for meas_bases in product(PAULI_OPS, repeat=len(quantum_outputs)):
Settings(num_inputs, num_outputs, prep_basis) ==
    LET preps == Product(GetPrepStates(prep_basis).value, num_inputs)
        bases == Product(PAULI_OPS, num_outputs)
    IN [i \in 1 .. Len(preps) * Len(bases) |->
           <<preps[((i - 1) \div Len(bases)) + 1], bases[((i - 1) % Len(bases)) + 1]>>]

\* repetitions that the budget passed in can raise
RepetitionsAtLeastBudget(budget, num_qubits) ==
    Max(budget, Max(Power(10, 4), Power(2, num_qubits)))

\* repetitions_per_variant = max(10**4, 2**len(qubit_order)): the assignment replaces
\* the budget that was passed in
SamplingRepetitions(budget, num_qubits) == Max(Power(10, 4), Power(2, num_qubits))

\* the Counters that results.multi_measurement_histogram(keys=qubit_order) of
\* simulator.run(full_circuit, repetitions) may be: the keys of one are the outcomes that
\* were observed, one of them at least.  The simulator samples, so that any outcomes of
\* the measured qubits may be the ones.  The counts come out of the sampling and are not
\* held: a count is kept as the outcome that it is the count of.
OutcomeCounters(num_qubits) ==
    {[outcome \in observed |-> outcome] :
        observed \in (SUBSET BitStrings(num_qubits)) \ {{}}}

\* a split that takes the quantum outcome from the front of the joint outcome
DataKeyQuantumFirst(outcome, setting, num_circuit_outputs) ==
    <<SubSeq(outcome, Len(outcome) - num_circuit_outputs + 1, Len(outcome)),
      <<setting[1], setting[2], SubSeq(outcome, 1, Len(outcome) - num_circuit_outputs)>> >>

\* the key under which the loop over outcome_counter.items() files an outcome:
\* (circuit_outcome, (prep_states, meas_bases, quantum_outcome))
DataKey(outcome, setting, num_circuit_outputs) ==
    <<SubSeq(outcome, 1, num_circuit_outputs),
      <<setting[1], setting[2], SubSeq(outcome, num_circuit_outputs + 1, Len(outcome))>> >>

\* the loop over outcome_counter.items():
\* tomography_data[circuit_outcome][conditions] = counts / repetitions_per_variant for
\* every outcome of the histogram; a frequency is <<counts, repetitions_per_variant>>
SettingData(histogram, setting, num_circuit_outputs, repetitions) ==
    LET keys == {DataKey(outcome, setting, num_circuit_outputs) : outcome \in DOMAIN histogram}
    IN [key \in keys |->
           LET outcome == CHOOSE o \in DOMAIN histogram :
                              DataKey(o, setting, num_circuit_outputs) = key
           IN <<histogram[outcome], repetitions>>]

\* probabilities = np.reshape(abs(final_state) ** 2, (2,) * num_qubits): an array that is
\* read at the outcomes of the measured qubits.  The numbers in it come out of the
\* simulation and are not held: a probability is kept as the index it is read at.
Probabilities(num_qubits) == [index \in BitStrings(num_qubits) |-> index]

\* exact data of the first circuit outcome only
ExactDataFirstCircuitOutcome(setting, num_circuit_outputs, num_outputs) ==
    LET circuit_outcome == Product(<<0, 1>>, num_circuit_outputs)[1]
        quantum_outcomes == Product(<<0, 1>>, num_outputs)
    IN [key \in {<<circuit_outcome, <<setting[1], setting[2], quantum_outcomes[j]>> >> :
                    j \in DOMAIN quantum_outcomes} |->
           key[1] \o key[2][3]]

\* the two loops of exact mode over product([0, 1], repeat=len(circuit_outputs)) and
\* product([0, 1], repeat=len(quantum_outputs)), which store
\* probabilities[circuit_outcome + quantum_outcome] at
\* tomography_data[circuit_outcome][conditions].
ExactData(setting, num_circuit_outputs, num_outputs) ==
    LET circuit_outcomes == Product(<<0, 1>>, num_circuit_outputs)
        quantum_outcomes == Product(<<0, 1>>, num_outputs)
        distribution == Probabilities(num_circuit_outputs + num_outputs)
        Conditions(j) == <<setting[1], setting[2], quantum_outcomes[j]>>
        Probability(i, j) == distribution[circuit_outcomes[i] \o quantum_outcomes[j]]
        written == {<< <<circuit_outcomes[i], Conditions(j)>>, Probability(i, j)>> :
                       i \in DOMAIN circuit_outcomes, j \in DOMAIN quantum_outcomes}
    IN [key \in {entry[1] : entry \in written} |->
           (CHOOSE entry \in written : entry[1] = key)[2]]

\* the writes per slot after one more write to every slot of `new`
Counted(writes, new) ==
    [key \in DOMAIN new |-> IF key \in DOMAIN writes THEN writes[key] + 1 ELSE 1] @@ writes

\* len(qubit_order), qubit_order = circuit_outputs + quantum_outputs
NumQubitsMeasured(call) == call.num_circuit_outputs + call.num_outputs

\* the head of perform_single_fragment_tomography: a budget that is neither None nor 0
\* selects sampling, and the repetitions are then set anew
EnterSingleFragmentTomography ==
    /\ single_pc = "called"
    /\ single_repetitions' =
          IF TomographyMode(single_call.given, single_call.budget) = "sampling"
          THEN SamplingRepetitions(single_call.budget, NumQubitsMeasured(single_call))
          ELSE 0
    /\ single_pc' = "looping"
    /\ UNCHANGED <<single_call, setting_index, simulated, drawn, outcome_counter, setting_data,
                   exact_data, slot_writes>>
    /\ UNCHANGED notSingle

\* one pass of the inner loop.  Without repetitions the probabilities are read off the
\* final state vector: nothing is sampled, and every slot is filled with the probability
\* of its outcome.  With repetitions the histogram that simulator.run returns is stored
\* whatever outcomes it holds, and the entries it makes are kept in setting_data;
\* simulator.run raises ValueError for a circuit without a measurement, which
\* full_circuit is when no qubit is measured.  The setting of the pass is the one that
\* the two loops have come to, simulated'[setting_index'].
SimulateSetting ==
    /\ single_pc = "looping"
    /\ setting_index < Len(Settings(single_call.num_inputs, single_call.num_outputs,
                                    single_call.prep_basis))
    /\ IF single_repetitions # 0 /\ NumQubitsMeasured(single_call) = 0
       THEN /\ single_pc' = "error"
            /\ UNCHANGED <<setting_index, simulated, drawn, outcome_counter, setting_data,
                           exact_data, slot_writes>>
       ELSE /\ setting_index' = setting_index + 1
            /\ simulated' =
                  Append(simulated, Settings(single_call.num_inputs, single_call.num_outputs,
                                             single_call.prep_basis)[setting_index + 1])
            /\ IF single_repetitions = 0
               THEN LET new == ExactData(simulated'[setting_index'],
                                         single_call.num_circuit_outputs,
                                         single_call.num_outputs)
                    IN /\ exact_data' = new @@ exact_data
                       /\ slot_writes' = Counted(slot_writes, new)
                       /\ UNCHANGED <<single_pc, drawn, outcome_counter, setting_data>>
               ELSE \E histogram \in OutcomeCounters(NumQubitsMeasured(single_call)) :
                        /\ drawn' = single_repetitions
                        /\ outcome_counter' = histogram
                        /\ setting_data' =
                              SettingData(histogram, simulated'[setting_index'],
                                          single_call.num_circuit_outputs, single_repetitions)
                        /\ UNCHANGED <<single_pc, exact_data, slot_writes>>
    /\ UNCHANGED <<single_call, single_repetitions>>
    /\ UNCHANGED notSingle

\* both loops are exhausted: return FragmentTomographyData(fragment, tomography_data, prep_basis)
ReturnTomographyData ==
    /\ single_pc = "looping"
    /\ setting_index = Len(Settings(single_call.num_inputs, single_call.num_outputs,
                                    single_call.prep_basis))
    /\ single_pc' = "returned"
    /\ UNCHANGED <<single_call, single_repetitions, setting_index, simulated, drawn,
                   outcome_counter, setting_data, exact_data, slot_writes>>
    /\ UNCHANGED notSingle

\* the fragments tomographed: those of up to MaxMeasuredQubits measured qubits, and among
\* them, to sample, those of up to MaxSampledSettings settings, every one of which is
\* run with every histogram.  Fragment.__init__ asserts that the quantum inputs and the
\* quantum outputs are qubits of the circuit and takes the circuit's other qubits as the
\* circuit outputs, so that a fragment has no more quantum inputs than it has qubits
\* measured.  The budget is none at all, 0 or LargeBudget.
InitSingle ==
    /\ single_pc = "called"
    /\ \E num_inputs \in 0 .. MaxPorts, num_outputs \in 0 .. MaxPorts,
          num_circuit_outputs \in 0 .. MaxMeasuredQubits, prep_basis \in RecognizedPrepBases,
          given \in BOOLEAN, budget \in {0, LargeBudget} :
           /\ num_circuit_outputs + num_outputs <= MaxMeasuredQubits
           /\ num_inputs <= num_circuit_outputs + num_outputs
           /\ given \/ budget = 0
           /\ budget # 0 =>
                  Len(Settings(num_inputs, num_outputs, prep_basis)) <= MaxSampledSettings
           /\ single_call =
                 [num_inputs |-> num_inputs, num_outputs |-> num_outputs,
                  num_circuit_outputs |-> num_circuit_outputs,
                  prep_basis |-> prep_basis, given |-> given, budget |-> budget]
    /\ single_repetitions = 0
    /\ setting_index = 0
    /\ simulated = << >>
    /\ drawn = 0
    /\ outcome_counter = << >>
    /\ setting_data = << >>
    /\ exact_data = << >>
    /\ slot_writes = << >>

NextSingle ==
    \/ EnterSingleFragmentTomography
    \/ SimulateSetting
    \/ ReturnTomographyData

\* ---------------------------------------------------------------- the repetitions of perform_single_fragment_tomography

\* The same function, held by the repetitions it runs and divides by alone: the outcomes
\* that a histogram counts are not held here, so that fragments of many qubits are within
\* reach.

\* the head of perform_single_fragment_tomography: a budget that is neither None nor 0
\* selects sampling, and the repetitions are then set anew
EnterSampling ==
    /\ shots_pc = "called"
    /\ shots_repetitions' =
          IF TomographyMode(shots_call.given, shots_call.budget) = "sampling"
          THEN SamplingRepetitions(shots_call.budget, NumQubitsMeasured(shots_call))
          ELSE 0
    /\ shots_pc' = "looping"
    /\ UNCHANGED <<shots_call, shots_passes, run_repetitions, counted, divisors>>
    /\ UNCHANGED notShots

\* one pass of the inner loop.  Without repetitions nothing is run.  With repetitions
\* results = simulator.run(full_circuit, repetitions=repetitions_per_variant) is called;
\* the histogram of its results counts one outcome for every repetition run, whatever
\* the outcomes are, and the loop over its items divides every count by
\* repetitions_per_variant.  simulator.run raises ValueError for a circuit without a
\* measurement, which full_circuit is when no qubit is measured.
RunSetting ==
    /\ shots_pc = "looping"
    /\ shots_passes < Len(Settings(shots_call.num_inputs, shots_call.num_outputs,
                                   shots_call.prep_basis))
    /\ IF shots_repetitions = 0
       THEN /\ shots_passes' = shots_passes + 1
            /\ UNCHANGED <<shots_pc, run_repetitions, counted, divisors>>
       ELSE IF NumQubitsMeasured(shots_call) = 0
       THEN /\ shots_pc' = "error"
            /\ UNCHANGED <<shots_passes, run_repetitions, counted, divisors>>
       ELSE /\ run_repetitions' = shots_repetitions
            /\ counted' = run_repetitions'
            /\ divisors' = {shots_repetitions}
            /\ shots_passes' = shots_passes + 1
            /\ UNCHANGED shots_pc
    /\ UNCHANGED <<shots_call, shots_repetitions>>
    /\ UNCHANGED notShots

\* both loops are exhausted
ReturnSampled ==
    /\ shots_pc = "looping"
    /\ shots_passes = Len(Settings(shots_call.num_inputs, shots_call.num_outputs,
                                   shots_call.prep_basis))
    /\ shots_pc' = "returned"
    /\ UNCHANGED <<shots_call, shots_repetitions, shots_passes, run_repetitions, counted,
                   divisors>>
    /\ UNCHANGED notShots

\* the fragments tomographed: the circuit outputs are few, or so many that
\* 2 ** num_qubits comes near 10 ** 4, and a fragment has no more quantum inputs than it
\* has qubits measured; the budget is none at all, 0, 1 or LargeBudget
InitShots ==
    /\ shots_pc = "called"
    /\ \E num_inputs \in 0 .. MaxPorts, num_outputs \in 0 .. MaxPorts,
          num_circuit_outputs \in {0, 1, MaxCircuitQubits - 1, MaxCircuitQubits},
          prep_basis \in RecognizedPrepBases, given \in BOOLEAN,
          budget \in {0, 1, LargeBudget} :
           /\ num_inputs <= num_circuit_outputs + num_outputs
           /\ given \/ budget = 0
           /\ shots_call =
                 [num_inputs |-> num_inputs, num_outputs |-> num_outputs,
                  num_circuit_outputs |-> num_circuit_outputs,
                  prep_basis |-> prep_basis, given |-> given, budget |-> budget]
    /\ shots_repetitions = 0
    /\ shots_passes = 0
    /\ run_repetitions = 0
    /\ counted = 0
    /\ divisors = {}

NextShots ==
    \/ EnterSampling
    \/ RunSetting
    \/ ReturnSampled

\* ---------------------------------------------------------------- corrected_fragment_models

\* a correction that is run on every block by itself; the values are brought to the
\* scale of the whole array
CorrectedBlockByBlock(eigenvalues) ==
    {[r \in DOMAIN eigenvalues |->
         [c \in DOMAIN eigenvalues[r] |->
             CorrectProbabilityDistribution(
                 <<eigenvalues[r]>>, CHOOSE order \in ArgSorts(eigenvalues[r]) : TRUE)[1][c]
                 * (Scale(Size(eigenvalues)) \div Scale(Len(eigenvalues[r])))]]}

\* corrected_single_fragment_model(fragment_model), as the eigenvalues the corrected
\* blocks are rebuilt from: the eigenvalues of all blocks are collected in one array,
\* one row per block, and correct_probability_distribution is called once on that array.
\* The set holds what it may return, np.argsort being free to order equal values.
CorrectedSingleFragmentModel(eigenvalues) ==
    {CorrectProbabilityDistribution(eigenvalues, prob_order) :
        prob_order \in ArgSorts(Ravel(eigenvalues))}

\* the dict comprehension of corrected_fragment_models: every model is corrected by a
\* call of its own
RECURSIVE CorrectedFragmentModelsOf(_)
CorrectedFragmentModelsOf(models) ==
    IF models = << >> THEN {<< >>}
    ELSE {<<first>> \o rest : first \in CorrectedSingleFragmentModel(Head(models)),
                              rest \in CorrectedFragmentModelsOf(Tail(models))}

CorrectedFragmentModels ==
    /\ models_pc = "called"
    /\ corrected_models' \in CorrectedFragmentModelsOf(fragment_models)
    /\ models_pc' = "corrected"
    /\ UNCHANGED fragment_models
    /\ UNCHANGED notModels

\* the models of a single block with a single eigenvalue
SmallModels == {<< <<value>> >> : value \in -MaxEigenvalue .. MaxEigenvalue}

\* the models passed: one fragment, or that fragment before or after a small one
InitModels ==
    /\ models_pc = "called"
    /\ \E model \in Arrays(MaxEigenEntries, MaxEigenvalue) :
           \/ fragment_models = <<model>>
           \/ \E other \in SmallModels :
                  fragment_models \in {<<model, other>>, <<other, model>>}
    /\ corrected_models = << >>

NextModels == CorrectedFragmentModels

\* ---------------------------------------------------------------- recombine_fragment_models

\* a loop that pairs the fragments' keys position by position instead of combining them
ItertoolsProductPairedUp(lists) ==
    IF lists = << >> THEN << << >> >>
    ELSE LET shortest == CHOOSE n \in {Len(lists[k]) : k \in DOMAIN lists} :
                             \A k \in DOMAIN lists : n <= Len(lists[k])
         IN [i \in 1 .. shortest |-> [k \in DOMAIN lists |-> lists[k][i]]]

\* itertools.product(*lists) as the sequence it runs through: the last list advances
\* fastest
RECURSIVE ItertoolsProduct(_)
ItertoolsProduct(lists) ==
    IF lists = << >> THEN << << >> >>
    ELSE LET first == Head(lists)
             rest == ItertoolsProduct(Tail(lists))
         IN [i \in 1 .. Len(first) * Len(rest) |->
                <<first[((i - 1) \div Len(rest)) + 1]>> \o rest[((i - 1) % Len(rest)) + 1]]

\* the assignments recombined_distribution[combined_measurement_outcome] = ... of the
\* loop from its i-th iteration on; the contracted value is held as the combination it
\* was contracted for
RECURSIVE RecombineLoop(_, _, _, _)
RecombineLoop(perm, combinations, distribution, i) ==
    IF i > Len(combinations) THEN distribution
    ELSE RecombineLoop(perm, combinations,
                       Put(distribution, OutcomeCombiner(perm, combinations[i]),
                           combinations[i]),
                       i + 1)

\* the qubit order get_outcome_combiner works with
EffectiveOrder(frags, arg) ==
    IF arg.given THEN arg.order ELSE SortedQubits(CircuitQubits(frags))

\* recombine_fragment_models(fragment_models, qubit_order)
RecombineFragmentModels ==
    /\ recombine_pc = "called"
    /\ LET frags == [i \in DOMAIN recombine_models |-> recombine_models[i].fragment]
           order == EffectiveOrder(frags, recombine_order)
           frag_circuit_outputs ==
               [i \in DOMAIN recombine_models |-> recombine_models[i].substrings]
       IN IF \/ recombine_models = << >>
             \/ \E i \in DOMAIN recombine_models : recombine_models[i].substrings = << >>
             \/ \E i \in DOMAIN order :
                    \A k \in DOMAIN ConcatenatedQubits(frags) :
                        ConcatenatedQubits(frags)[k] # FinalQubitOrder(frags, order)[i]
          THEN \* next() of a model without blocks, functools.reduce of an empty list, or
               \* list.index of a qubit that is not in the list
               /\ recombine_pc' = "error"
               /\ UNCHANGED <<contractions, recombined_distribution>>
          ELSE /\ recombine_pc' = "done"
               /\ contractions' = ItertoolsProduct(frag_circuit_outputs)
               /\ recombined_distribution' =
                      RecombineLoop(BitPermutation(frags, order), contractions', EmptyDict, 1)
    /\ UNCHANGED <<original_circuit, recombine_models, recombine_order>>
    /\ UNCHANGED notRecombine

\* the keys of a model's data for a fragment with c circuit outputs: every outcome (exact
\* tomography), or the outcomes that were seen (sampling)
ModelKeys(seen, c) ==
    IF seen = "all" \/ c = 0 THEN Product(<<0, 1>>, c) ELSE Tail(Product(<<0, 1>>, c))

\* list(reversed(seq))
Reversed(seq) == [i \in DOMAIN seq |-> seq[Len(seq) + 1 - i]]

\* the qubit_order arguments: none, the qubits in descending order, an order that leaves
\* the last qubit out, and an order that names the first qubit twice
QubitOrderArguments(circ) ==
    LET sorted == SortedQubits(AllQubits(circ))
    IN {[given |-> FALSE, order |-> << >>], [given |-> TRUE, order |-> Reversed(sorted)]}
       \cup (IF sorted = << >> THEN {}
             ELSE {[given |-> TRUE, order |-> SubSeq(sorted, 1, Len(sorted) - 1)],
                   [given |-> TRUE, order |-> <<sorted[1]>> \o sorted]})

\* the fragment models of a circuit that cut_circuit cut at most once
InitRecombine ==
    \E circ \in Circuits(NumQubits, MaxMoments), cuts \in CutLists(NumQubits, MaxMoments),
       seen \in {"all", "some"} :
        LET done == CutLoop(CutLoopStart(circ), cuts)
            frags == MakeFragments(done.circuit, done.quantum_inputs, done.quantum_outputs)
        IN /\ recombine_pc = "called"
           /\ original_circuit = circ
           /\ recombine_models =
                  [i \in DOMAIN frags |->
                      [fragment |-> frags[i],
                       substrings |-> ModelKeys(seen, Len(frags[i].circuit_outputs))]]
           /\ recombine_order \in QubitOrderArguments(circ)
           /\ contractions = << >>
           /\ recombined_distribution = EmptyDict

NextRecombine == RecombineFragmentModels

\* ---------------------------------------------------------------- find_process_jobs

\* seq[start:stop] for 0 <= start: Python clips the two ends to the length of the list
Slice(seq, start, stop) == SubSeq(seq, Min(start, Len(seq)) + 1, Min(stop, Len(seq)))

\* a partition that hands every rank count jobs from rank * count on
FindProcessJobsWithoutRemainder(job_list, r, workers) ==
    LET count == Len(job_list) \div workers
    IN Slice(job_list, r * count, r * count + count)

\* find_process_jobs(jobs, rank, num_workers); int(len(jobs) / num_workers) is the
\* floor of the quotient for the lengths a list can have
FindProcessJobs(job_list, r, workers) ==
    LET count == Len(job_list) \div workers
        remainder == Len(job_list) % workers
        jobs_start == IF r < remainder THEN r * (count + 1) ELSE r * count + remainder
        jobs_stop == IF r < remainder
                     THEN jobs_start + count + 1
                     ELSE jobs_start + (count - 1) + 1
    IN Slice(job_list, jobs_start, jobs_stop)

\* one iteration of "for rank in range(num_workers)": the slice of the rank
HandOutJobs ==
    /\ jobs_pc = "looping"
    /\ rank < num_workers
    /\ rank_jobs' = Append(rank_jobs, FindProcessJobs(jobs, rank, num_workers))
    /\ rank' = rank + 1
    /\ UNCHANGED <<jobs_pc, jobs, num_workers>>
    /\ UNCHANGED notJobs

\* the loop over the ranks is over: the processes are waited for
WaitForProcesses ==
    /\ jobs_pc = "looping"
    /\ rank >= num_workers
    /\ jobs_pc' = "waited"
    /\ UNCHANGED <<jobs, num_workers, rank, rank_jobs>>
    /\ UNCHANGED notJobs

\* scrambled(jobs): the jobs 1 .. n in some order
JobLists == UNION {Orders(1 .. n) : n \in 0 .. MaxJobs}

InitJobs ==
    /\ jobs_pc = "looping"
    /\ jobs \in JobLists
    /\ num_workers \in 0 .. MaxWorkers
    /\ rank = 0
    /\ rank_jobs = << >>

NextJobs == HandOutJobs \/ WaitForProcesses

\* ---------------------------------------------------------------- specifications

\* the cutter is not in use
IdleCut ==
    /\ pc = "idle"
    /\ input_circuit = << >>
    /\ circuit = << >>
    /\ quantum_inputs = EmptyDict
    /\ quantum_outputs = EmptyDict
    /\ initial_to_final_qubit_map = EmptyDict
    /\ cut_index = 0
    /\ last_cut = NoCut
    /\ last_branch = "none"
    /\ num_cuts = 0
    /\ fragments = << >>
    /\ qubit_order = << >>
    /\ bit_permutation = << >>

\* the correction is not in use
IdleMlc ==
    /\ mlc_pc = "idle"
    /\ probabilities = << >>
    /\ corrected = << >>
    /\ recorrected = << >>
    /\ sorted_trace = << >>

\* the builders are not in use
IdleOps ==
    /\ ops_pc = "idle"
    /\ ops_call = << >>
    /\ ops_result = << >>

\* the model builder is not in use
IdleBuild ==
    /\ build_pc = "idle"
    /\ build_call = << >>
    /\ lstsq_cond = << >>

\* the tomography is not in use
IdleTomo ==
    /\ tomo_pc = "idle"
    /\ tomo_call = << >>
    /\ repetitions_per_variant = 0
    /\ tomography_modes = << >>

\* the outcome vector of build_conditional_fragment_model is not in use
IdleVec ==
    /\ vec_pc = "idle"
    /\ vec_call = << >>
    /\ interrogation_outcomes = << >>

\* the pipeline on shared objects is not in use
IdlePure ==
    /\ pure_pc = "idle"
    /\ heap = << >>
    /\ pure_call = << >>
    /\ circuit_ref = 0
    /\ fragment_refs = << >>
    /\ tomography_refs = << >>
    /\ model_refs = << >>
    /\ corrected_refs = << >>

\* perform_single_fragment_tomography is not in use
IdleSingle ==
    /\ single_pc = "idle"
    /\ single_call = << >>
    /\ single_repetitions = 0
    /\ setting_index = 0
    /\ simulated = << >>
    /\ drawn = 0
    /\ outcome_counter = << >>
    /\ setting_data = << >>
    /\ exact_data = << >>
    /\ slot_writes = << >>

\* the repetitions of perform_single_fragment_tomography are not followed
IdleShots ==
    /\ shots_pc = "idle"
    /\ shots_call = << >>
    /\ shots_repetitions = 0
    /\ shots_passes = 0
    /\ run_repetitions = 0
    /\ counted = 0
    /\ divisors = {}

\* corrected_fragment_models is not in use
IdleModels ==
    /\ models_pc = "idle"
    /\ fragment_models = << >>
    /\ corrected_models = << >>

\* recombine_fragment_models is not in use
IdleRecombine ==
    /\ recombine_pc = "idle"
    /\ original_circuit = << >>
    /\ recombine_models = << >>
    /\ recombine_order = [given |-> FALSE, order |-> << >>]
    /\ contractions = << >>
    /\ recombined_distribution = << >>

\* run_subcircuit_instances is not in use
IdleJobs ==
    /\ jobs_pc = "idle"
    /\ jobs = << >>
    /\ num_workers = 1
    /\ rank = 0
    /\ rank_jobs = << >>

InitSpecCut ==
    /\ InitCut(NumQubits, MaxMoments)
    /\ IdleMlc /\ IdleOps /\ IdleBuild /\ IdleTomo /\ IdleVec /\ IdlePure /\ IdleSingle
    /\ IdleShots /\ IdleModels /\ IdleRecombine /\ IdleJobs

SpecCut == InitSpecCut /\ [][NextCut]_vars

InitSpecMlc ==
    /\ InitMlc
    /\ IdleCut /\ IdleOps /\ IdleBuild /\ IdleTomo /\ IdleVec /\ IdlePure /\ IdleSingle
    /\ IdleShots /\ IdleModels /\ IdleRecombine /\ IdleJobs

SpecMlc == InitSpecMlc /\ [][NextMlc]_vars

InitSpecOps ==
    /\ InitOps
    /\ IdleCut /\ IdleMlc /\ IdleBuild /\ IdleTomo /\ IdleVec /\ IdlePure /\ IdleSingle
    /\ IdleShots /\ IdleModels /\ IdleRecombine /\ IdleJobs

SpecOps == InitSpecOps /\ [][NextOps]_vars

InitSpecBuild ==
    /\ InitBuild
    /\ IdleCut /\ IdleMlc /\ IdleOps /\ IdleTomo /\ IdleVec /\ IdlePure /\ IdleSingle
    /\ IdleShots /\ IdleModels /\ IdleRecombine /\ IdleJobs

SpecBuild == InitSpecBuild /\ [][NextBuild]_vars

InitSpecTomo ==
    /\ InitTomo
    /\ IdleCut /\ IdleMlc /\ IdleOps /\ IdleBuild /\ IdleVec /\ IdlePure /\ IdleSingle
    /\ IdleShots /\ IdleModels /\ IdleRecombine /\ IdleJobs

SpecTomo == InitSpecTomo /\ [][NextTomo]_vars

InitSpecVec ==
    /\ InitVec
    /\ IdleCut /\ IdleMlc /\ IdleOps /\ IdleBuild /\ IdleTomo /\ IdlePure /\ IdleSingle
    /\ IdleShots /\ IdleModels /\ IdleRecombine /\ IdleJobs

SpecVec == InitSpecVec /\ [][NextVec]_vars

\* cut_circuit on longer circuits with fewer qubits, for wires that are cut repeatedly
InitSpecChain ==
    /\ InitCut(ChainQubits, ChainMoments)
    /\ IdleMlc /\ IdleOps /\ IdleBuild /\ IdleTomo /\ IdleVec /\ IdlePure /\ IdleSingle
    /\ IdleShots /\ IdleModels /\ IdleRecombine /\ IdleJobs

NextChain ==
    \/ ApplyCut(ChainQubits, ChainMoments, ChainCuts)
    \/ FinishCutting
    \/ GetOutcomeCombinerDefault

SpecChain == InitSpecChain /\ [][NextChain]_vars

\* several wires that may each be cut more than once: circuits of CombinerQubits qubits
\* and CombinerMoments moments at most in which every moment acts on every qubit, so that
\* a cut between two moments is never trivial
InitSpecCombiner ==
    /\ InitCut(CombinerQubits, CombinerMoments)
    /\ \A i \in DOMAIN input_circuit : UNION input_circuit[i] = Qubits(CombinerQubits)
    /\ IdleMlc /\ IdleOps /\ IdleBuild /\ IdleTomo /\ IdleVec /\ IdlePure /\ IdleSingle
    /\ IdleShots /\ IdleModels /\ IdleRecombine /\ IdleJobs

NextCombiner ==
    \/ ApplyCut(CombinerQubits, CombinerMoments, CombinerCuts)
    \/ FinishCutting
    \/ GetOutcomeCombinerDefault

SpecCombiner == InitSpecCombiner /\ [][NextCombiner]_vars

InitSpecPure ==
    /\ InitPure
    /\ IdleCut /\ IdleMlc /\ IdleOps /\ IdleBuild /\ IdleTomo /\ IdleVec /\ IdleSingle
    /\ IdleShots /\ IdleModels /\ IdleRecombine /\ IdleJobs

SpecPure == InitSpecPure /\ [][NextPure]_vars

InitSpecSingle ==
    /\ InitSingle
    /\ IdleCut /\ IdleMlc /\ IdleOps /\ IdleBuild /\ IdleTomo /\ IdleVec /\ IdlePure
    /\ IdleShots /\ IdleModels /\ IdleRecombine /\ IdleJobs

SpecSingle == InitSpecSingle /\ [][NextSingle]_vars

InitSpecShots ==
    /\ InitShots
    /\ IdleCut /\ IdleMlc /\ IdleOps /\ IdleBuild /\ IdleTomo /\ IdleVec /\ IdlePure
    /\ IdleSingle /\ IdleModels /\ IdleRecombine /\ IdleJobs

SpecShots == InitSpecShots /\ [][NextShots]_vars

InitSpecModels ==
    /\ InitModels
    /\ IdleCut /\ IdleMlc /\ IdleOps /\ IdleBuild /\ IdleTomo /\ IdleVec /\ IdlePure
    /\ IdleSingle /\ IdleRecombine /\ IdleJobs /\ IdleShots

SpecModels == InitSpecModels /\ [][NextModels]_vars

InitSpecRecombine ==
    /\ InitRecombine
    /\ IdleCut /\ IdleMlc /\ IdleOps /\ IdleBuild /\ IdleTomo /\ IdleVec /\ IdlePure
    /\ IdleSingle /\ IdleShots /\ IdleModels /\ IdleJobs

SpecRecombine == InitSpecRecombine /\ [][NextRecombine]_vars

InitSpecJobs ==
    /\ InitJobs
    /\ IdleCut /\ IdleMlc /\ IdleOps /\ IdleBuild /\ IdleTomo /\ IdleVec /\ IdlePure
    /\ IdleSingle /\ IdleShots /\ IdleModels /\ IdleRecombine

SpecJobs == InitSpecJobs /\ [][NextJobs]_vars

\* ---------------------------------------------------------------- claims on the cutter

\* the circuit H(0); CX(0, 1)
BellCircuit == <<{{LineQubit(0)}}, {{LineQubit(0), LineQubit(1)}}>>

\* cut_circuit returns now, after a cut list holding the single cut `cut`
ReturnsAfterSingleCut(circ, cut) ==
    /\ pc = "cutting"
    /\ pc' = "cut"
    /\ input_circuit = circ
    /\ num_cuts = 1
    /\ last_cut = cut

\* C2 (as stated): cutting H(0); CX(0,1) immediately after the CX on qubit 1 returns
\* exactly 2 fragments, one with quantum_outputs {qubit 1: cut_0} and one with
\* quantum_inputs {new qubit: cut_0}.
C2_TwoFragmentsAfterCX ==
    [][ReturnsAfterSingleCut(BellCircuit, <<2, LineQubit(1)>>) =>
          /\ Len(fragments') = 2
          /\ \E f \in DOMAIN fragments' :
                 fragments'[f].quantum_outputs = Put(EmptyDict, LineQubit(1), 0)
          /\ \E f \in DOMAIN fragments' :
                 fragments'[f].quantum_inputs = Put(EmptyDict, NamedQubit(0), 0)]_vars

\* C2 (amended): in H(0); CX(0,1) every cut on qubit 1 is trivial, so cut_circuit returns
\* exactly 1 fragment with no quantum inputs or outputs and hands out no cut-name; the
\* cut between H and CX on qubit 0 returns exactly 2 fragments, one with
\* quantum_outputs {qubit 0: cut_0} and one with quantum_inputs {new qubit: cut_0}.
C2_BellCuts ==
    [][/\ \A t \in 0 .. 2 :
            ReturnsAfterSingleCut(BellCircuit, <<t, LineQubit(1)>>) =>
                /\ Len(fragments') = 1
                /\ fragments'[1].quantum_inputs = EmptyDict
                /\ fragments'[1].quantum_outputs = EmptyDict
                /\ cut_index = 0
       /\ ReturnsAfterSingleCut(BellCircuit, <<1, LineQubit(0)>>) =>
                /\ Len(fragments') = 2
                /\ \E f \in DOMAIN fragments' :
                       /\ fragments'[f].quantum_outputs = Put(EmptyDict, LineQubit(0), 0)
                       /\ fragments'[f].quantum_inputs = EmptyDict
                /\ \E f \in DOMAIN fragments' :
                       /\ fragments'[f].quantum_inputs = Put(EmptyDict, NamedQubit(0), 0)
                       /\ fragments'[f].quantum_outputs = EmptyDict]_vars

\* the cut after the CX on qubit 1 of H(0); CX(0,1) was processed and found trivial
C2_Witness ==
    /\ pc = "cutting"
    /\ input_circuit = BellCircuit
    /\ num_cuts = 1
    /\ last_cut = <<2, LineQubit(1)>>
    /\ last_branch = "no_downstream"

\* an operation of moment index j (Python) addresses the qubit
AddressedAt(circ, j, qubit) == \E op \in circ[j + 1] : qubit \in op

\* the cut (t, cut_qubit) is trivial: the qubit's current identity has no operation
\* strictly before t, or none at or after t
IsTrivialCut(circ, map, t, cut_qubit) ==
    LET current == OldQubit(map, cut_qubit)
    IN \/ \A j \in 0 .. Len(circ) - 1 : j < t => ~AddressedAt(circ, j, current)
       \/ \A j \in 0 .. Len(circ) - 1 : j >= t => ~AddressedAt(circ, j, current)

\* the cut-names that occur in the quantum inputs/outputs of a list of fragments
NamesInFragments(frags) ==
    UNION {{frags[i].quantum_inputs[q] : q \in DOMAIN frags[i].quantum_inputs}
             \cup {frags[i].quantum_outputs[q] : q \in DOMAIN frags[i].quantum_outputs} :
               i \in DOMAIN frags}

\* C3: an iteration of the cut loop on a trivial cut raises no error, hands out no
\* cut-name and records nothing: the quantum inputs/outputs, the routing map and the
\* circuit are as before, so the fragments returned hold the same cut-names as if the
\* cut had not been given.
C3_TrivialCutSkipped ==
    [][(/\ pc = "cutting"
        /\ num_cuts' = num_cuts + 1
        /\ IsTrivialCut(circuit, initial_to_final_qubit_map, last_cut'[1], last_cut'[2]))
       => /\ pc' = "cutting"
          /\ cut_index' = cut_index
          /\ quantum_inputs' = quantum_inputs
          /\ quantum_outputs' = quantum_outputs
          /\ initial_to_final_qubit_map' = initial_to_final_qubit_map
          /\ circuit' = circuit
          /\ NamesInFragments(MakeFragments(circuit', quantum_inputs', quantum_outputs'))
                = NamesInFragments(MakeFragments(circuit, quantum_inputs, quantum_outputs))
          /\ NamesInFragments(MakeFragments(circuit', quantum_inputs', quantum_outputs'))
                = 0 .. cut_index - 1]_vars

\* a trivial cut was skipped on a wire that an earlier cut had already rerouted
C3_Witness ==
    /\ pc = "cutting"
    /\ last_branch = "no_downstream"
    /\ last_cut[2] \in DOMAIN initial_to_final_qubit_map
    /\ cut_index = 1
    /\ num_cuts = 2

\* the qubit an original qubit is finally routed to, by the cutter's own routing map
RoutedTo(qubit) == OldQubit(initial_to_final_qubit_map, qubit)

\* the substrings the fragments hold when circuit-output qubit q shows bit b[q]
SubstringsOf(frags, b) ==
    [f \in DOMAIN frags |->
        [j \in DOMAIN frags[f].circuit_outputs |-> b[frags[f].circuit_outputs[j]]]]

\* the circuit-output qubits of all fragments
OutputQubits(frags) ==
    UNION {{frags[f].circuit_outputs[j] : j \in DOMAIN frags[f].circuit_outputs} :
              f \in DOMAIN frags}

\* C4: bit i of the combined outcome is the bit held by the fragment circuit-output
\* qubit to which qubit_order[i] is finally routed through its cuts.
C4_PermutationCorrect ==
    pc = "combined" =>
        \A b \in [OutputQubits(fragments) -> {0, 1}] :
            LET combined == OutcomeCombiner(bit_permutation, SubstringsOf(fragments, b))
            IN /\ Len(combined) = Len(qubit_order)
               /\ \A i \in DOMAIN qubit_order : combined[i] = b[RoutedTo(qubit_order[i])]

\* two fragments recombined in an order that the concatenation order does not give
C4_Witness ==
    /\ pc = "combined"
    /\ Len(fragments) = 2
    /\ cut_index > 0
    /\ \E i \in DOMAIN bit_permutation : bit_permutation[i] # i - 1
    /\ \E i \in DOMAIN qubit_order : RoutedTo(qubit_order[i]) # qubit_order[i]

\* ---------------------------------------------------------------- claims on the correction

\* C5 (as stated): for any array of eigenvalues, the returned eigenvalues sum to what
\* the given ones sum to.
C5_TracePreservedAlways ==
    mlc_pc = "corrected" =>
        SumSeq(Ravel(corrected)) = Scale(Size(probabilities)) * SumSeq(Ravel(probabilities))

\* C5 (amended): the returned eigenvalues sum to what the given ones sum to whenever
\* that sum is not negative; when it is negative every returned eigenvalue is 0.
C5_TracePreserved ==
    mlc_pc = "corrected" =>
        IF SumSeq(Ravel(probabilities)) >= 0
        THEN SumSeq(Ravel(corrected))
                 = Scale(Size(probabilities)) * SumSeq(Ravel(probabilities))
        ELSE \A i \in 1 .. Size(corrected) : Ravel(corrected)[i] = 0

\* an array with negative entries in two blocks and a positive sum was corrected
C5_Witness ==
    /\ mlc_pc = "corrected"
    /\ Len(probabilities) = 2
    /\ \A r \in 1 .. 2 : \E c \in DOMAIN probabilities[r] : probabilities[r][c] < 0
    /\ SumSeq(Ravel(probabilities)) > 0
    /\ corrected # [r \in DOMAIN probabilities |->
                       [c \in DOMAIN probabilities[r] |->
                           probabilities[r][c] * Scale(Size(probabilities))]]

\* C6: every value the correction returns is non-negative.
C6_NonNegative ==
    /\ mlc_pc \in {"corrected", "recorrected"} =>
           \A i \in 1 .. Size(corrected) : Ravel(corrected)[i] >= 0
    /\ mlc_pc = "recorrected" =>
           \A i \in 1 .. Size(recorrected) : Ravel(recorrected)[i] >= 0

\* a value that was not negative was pushed below 0 by the share of a negative one and
\* set to 0 in turn, while another value stayed positive
C6_Witness ==
    /\ mlc_pc = "corrected"
    /\ \E i, k, j \in 1 .. Size(probabilities) :
           /\ Ravel(probabilities)[i] = 0
           /\ Ravel(probabilities)[k] < 0
           /\ Ravel(corrected)[i] = 0
           /\ Ravel(corrected)[j] > 0

\* C7: the correction returns its own output unchanged, and returns unchanged any array
\* with no negative entry.
C7_Idempotent ==
    /\ mlc_pc = "recorrected" =>
           recorrected = [r \in DOMAIN corrected |->
                             [c \in DOMAIN corrected[r] |->
                                 corrected[r][c] * Scale(Size(corrected))]]
    /\ (/\ mlc_pc = "corrected"
        /\ \A i \in 1 .. Size(probabilities) : Ravel(probabilities)[i] >= 0)
       => corrected = [r \in DOMAIN probabilities |->
                          [c \in DOMAIN probabilities[r] |->
                              probabilities[r][c] * Scale(Size(probabilities))]]

\* the correction was applied to the output of a correction that had changed its input
C7_Witness ==
    /\ mlc_pc = "recorrected"
    /\ \E i \in 1 .. Size(probabilities) : Ravel(probabilities)[i] < 0
    /\ \E i \in 1 .. Size(corrected) : Ravel(corrected)[i] > 0
    /\ \E i, j \in 1 .. Size(probabilities) :
           i < j /\ Ravel(probabilities)[i] > Ravel(probabilities)[j]

\* ---------------------------------------------------------------- claims on the builders

\* the call holds a label that the code's type declarations do not list
HasUnrecognizedLabel(call) ==
    IF call.fn = "get_prep_states" THEN call.arg \notin RecognizedPrepBases
    ELSE IF call.fn = "prep_state_ops"
    THEN \E i \in DOMAIN call.arg : call.arg[i] \notin RecognizedPrepStates
    ELSE \E i \in DOMAIN call.arg : call.arg[i] \notin RecognizedMeasBases

\* C8: a builder given an unrecognized preparation-basis name, preparation-state label
\* or measurement-basis label ends with an error; it never returns as if the label were
\* a recognized one.
C8_UnrecognizedLabelRaises ==
    (ops_pc = "returned" /\ HasUnrecognizedLabel(ops_call)) => ops_result.raised

\* C9: the cond given to lstsq for every block of every fragment is the rank_cutoff the
\* caller passed, and 1e-8 only when the caller passed none.
C9_RankCutoffHonoured ==
    build_pc = "built" =>
        \A f \in DOMAIN lstsq_cond : \A s \in DOMAIN lstsq_cond[f] :
            lstsq_cond[f][s] = IF build_call.given
                               THEN build_call.rank_cutoff
                               ELSE BuildFragmentModelsDefault

\* the settings enumerated over all fragments
RECURSIVE TotalSettings(_, _)
TotalSettings(frags, prep_basis) ==
    IF frags = << >> THEN 0
    ELSE NumSettingsEnumerated(Head(frags), prep_basis)
         + TotalSettings(Tail(frags), prep_basis)

\* C10: the per-setting budget is floor(total_repetitions / total_settings), total_settings
\* being the number of (preparation x measurement) settings enumerated over all
\* fragments.
C10_EvenDivision ==
    tomo_pc = "done" =>
        repetitions_per_variant
            = tomo_call.repetitions
                  \div TotalSettings(tomo_call.fragments, tomo_call.prep_basis)

\* ---------------------------------------------------------------- claims on the fragments

\* cut_circuit has returned its fragments
Returned_cut_circuit == pc \in {"cut", "combined", "combiner_error"}

\* the sequence lists its qubits in strictly ascending order
IsSortedQubits(seq) == \A i, j \in DOMAIN seq : i < j => QubitLess(seq[i], seq[j])

\* C11: for every Fragment returned by cut_circuit, every key of quantum_inputs and of
\* quantum_outputs is a qubit of the fragment's circuit, and circuit_outputs is the
\* sorted list of exactly the fragment's qubits that are not keys of quantum_outputs.
C11_FragmentInvariant ==
    Returned_cut_circuit =>
        \A f \in DOMAIN fragments :
            LET frag == fragments[f]
                qubits == AllQubits(frag.circuit)
            IN /\ DOMAIN frag.quantum_inputs \subseteq qubits
               /\ DOMAIN frag.quantum_outputs \subseteq qubits
               /\ IsSortedQubits(frag.circuit_outputs)
               /\ {frag.circuit_outputs[i] : i \in DOMAIN frag.circuit_outputs}
                      = qubits \ DOMAIN frag.quantum_outputs

\* a returned fragment holds a quantum input and a quantum output, and a returned
\* fragment holds two circuit outputs
C11_Witness ==
    /\ pc = "cut"
    /\ \E f \in DOMAIN fragments :
           /\ fragments[f].quantum_inputs # EmptyDict
           /\ fragments[f].quantum_outputs # EmptyDict
    /\ \E f \in DOMAIN fragments : Len(fragments[f].circuit_outputs) >= 2


\* ---------------------------------------------------------------- claims on the outcome vector

\* the tuple of n labels of seq that the number x spells in radix Len(seq), most
\* significant position first
Digits(x, n, seq) ==
    [i \in 1 .. n |-> seq[((x \div Power(Len(seq), n - i)) % Len(seq)) + 1]]

\* the condition of row r (counted from 0) of the interrogation matrix: rows run through
\* the preparations, within a preparation through the measurement bases, and within a
\* basis through the outcomes
RowCondition(r, num_inputs, num_outputs, prep_basis) ==
    LET states == GetPrepStates(prep_basis).value
        per_basis == Power(2, num_outputs)
        per_prep == Power(Len(PAULI_OPS), num_outputs) * per_basis
    IN <<Digits(r \div per_prep, num_inputs, states),
         Digits((r % per_prep) \div per_basis, num_outputs, PAULI_OPS),
         Digits(r % per_basis, num_outputs, <<0, 1>>)>>

\* the number of rows of the interrogation matrix
NumRows(num_inputs, num_outputs, prep_basis) ==
    Power(Len(GetPrepStates(prep_basis).value), num_inputs)
        * Power(Len(PAULI_OPS), num_outputs) * Power(2, num_outputs)

\* C12: entry r of the outcome vector b is the probability recorded for the condition
\* of row r of the interrogation matrix, or 0 when none was recorded; b is built for
\* every data, with one entry per row, so a missing condition shifts no other entry.
C12_MissingConditionIsZero ==
    vec_pc = "built" =>
        LET k == vec_call.num_inputs
            m == vec_call.num_outputs
            basis == vec_call.prep_basis
        IN /\ Len(interrogation_outcomes) = NumRows(k, m, basis)
           /\ \A r \in 0 .. NumRows(k, m, basis) - 1 :
                  LET condition == RowCondition(r, k, m, basis)
                  IN interrogation_outcomes[r + 1] =
                         IF condition \in DOMAIN vec_call.data
                         THEN vec_call.data[condition]
                         ELSE 0

\* b was built from data that misses the condition of a row and holds a probability
\* above 0 for the condition of a later row
C12_Witness ==
    /\ vec_pc = "built"
    /\ vec_call.num_outputs = 1
    /\ \E r1, r2 \in 0 .. Len(interrogation_outcomes) - 1 :
           /\ r1 < r2
           /\ RowCondition(r1, vec_call.num_inputs, vec_call.num_outputs, vec_call.prep_basis)
                  \notin DOMAIN vec_call.data
           /\ RowCondition(r2, vec_call.num_inputs, vec_call.num_outputs, vec_call.prep_basis)
                  \in DOMAIN vec_call.data
           /\ interrogation_outcomes[r1 + 1] = 0
           /\ interrogation_outcomes[r2 + 1] > 0


\* ---------------------------------------------------------------- claims on the shared objects

\* the references held by a list of FragmentModel objects: the models and their blocks
ModelObjects(refs) ==
    {refs[i] : i \in DOMAIN refs}
        \cup UNION {{heap[refs[i]].blocks[b] : b \in DOMAIN heap[refs[i]].blocks} :
                       i \in DOMAIN refs}

\* the objects the caller holds: the circuit, what the stages so far have returned, and
\* the circuit and dictionaries of every Fragment
CallerObjects ==
    {circuit_ref}
        \cup {fragment_refs[i] : i \in DOMAIN fragment_refs}
        \cup UNION {{heap[fragment_refs[i]].circuit,
                     heap[fragment_refs[i]].quantum_inputs,
                     heap[fragment_refs[i]].quantum_outputs} : i \in DOMAIN fragment_refs}
        \cup {tomography_refs[i] : i \in DOMAIN tomography_refs}
        \cup ModelObjects(model_refs)
        \cup ModelObjects(corrected_refs)

\* C13: no stage changes an object it was given: the caller's circuit, every Fragment
\* with its circuit and dictionaries, the tomography data and the blocks of the models
\* are after each stage what they were before it; and the models the corrector returns,
\* and their blocks, are objects that did not exist before.
C13_StagesArePure ==
    [][/\ \A o \in CallerObjects : heap'[o] = heap[o]
       /\ (pure_pc = "built" /\ pure_pc' = "corrected") =>
              /\ \A i \in DOMAIN corrected_refs' :
                     /\ corrected_refs'[i] > Len(heap)
                     /\ \A b \in DOMAIN heap'[corrected_refs'[i]].blocks :
                            heap'[corrected_refs'[i]].blocks[b] > Len(heap)
                     /\ heap'[corrected_refs'[i]].fragment = heap[model_refs[i]].fragment
              /\ Len(corrected_refs') = Len(model_refs)]_vars

\* a circuit was cut in two, its fragments were tomographed with a state prepared at a
\* quantum input, and the models were built, corrected and recombined, the direct ones
\* and the corrected ones: the corrected models and their blocks are other objects than
\* the direct ones, whose blocks are as the builder made them
C13_Witness ==
    /\ pure_pc = "recombined"
    /\ Len(fragment_refs) = 2
    /\ \E i \in DOMAIN fragment_refs : heap[heap[fragment_refs[i]].quantum_inputs] # EmptyDict
    /\ Len(corrected_refs) = 2
    /\ ModelObjects(corrected_refs) \cap ModelObjects(model_refs) = {}
    /\ \A i \in DOMAIN model_refs :
           \A b \in DOMAIN heap[model_refs[i]].blocks :
               heap[heap[model_refs[i]].blocks[b]] = [shape |-> <<4>>]


\* ---------------------------------------------------------------- more claims on the cutter

\* the cut-names a dictionary hands out
NamesOf(dict) == {dict[q] : q \in DOMAIN dict}

\* C14: an iteration of the cut loop on a cut that is not trivial hands out the name
\* cut_index to both sides of the cut and advances cut_index by one, an iteration on a
\* trivial cut hands out none; so at every point the names in use are exactly
\* cut_0 .. cut_(cut_index - 1), each held by one quantum output and one quantum input,
\* and these are the names in the fragments returned.
C14_CutNameAllocation ==
    [][/\ (pc = "cutting" /\ num_cuts' = num_cuts + 1) =>
              LET old_qubit == OldQubit(initial_to_final_qubit_map, last_cut'[2])
              IN /\ IF IsTrivialCut(circuit, initial_to_final_qubit_map,
                                    last_cut'[1], last_cut'[2])
                    THEN /\ cut_index' = cut_index
                         /\ quantum_outputs' = quantum_outputs
                         /\ quantum_inputs' = quantum_inputs
                    ELSE /\ cut_index' = cut_index + 1
                         /\ old_qubit \notin DOMAIN quantum_outputs
                         /\ quantum_outputs' = Put(quantum_outputs, old_qubit, cut_index)
                         /\ quantum_inputs' =
                                Put(quantum_inputs, NamedQubit(cut_index), cut_index)
                 /\ NamesOf(quantum_outputs') = 0 .. cut_index' - 1
                 /\ NamesOf(quantum_inputs') = 0 .. cut_index' - 1
                 /\ Cardinality(DOMAIN quantum_outputs') = cut_index'
                 /\ Cardinality(DOMAIN quantum_inputs') = cut_index'
       /\ (pc = "cutting" /\ pc' = "cut") =>
              NamesInFragments(fragments') = 0 .. cut_index - 1]_vars

\* cut_circuit returns after two cuts that were not trivial
C14_Witness ==
    /\ pc = "cut"
    /\ cut_index = 2
    /\ NamesInFragments(fragments) = {0, 1}


\* the qubits addressed in moment index j (Python) of the circuit
QubitsAt(circ, j) == UNION circ[j + 1]

\* C15: an iteration of the cut loop on a cut (t, qubit) that is not trivial keeps the
\* number of moments and every moment before t; in every moment at or after t, an
\* operation that addressed the qubit's current identity addresses the new cut qubit in
\* its place, in the same moment, and every other operation is there as before.
\* Afterwards the old identity occurs only before t and the new one only at or after t.
C15_DownstreamRewrite ==
    [][(/\ pc = "cutting"
        /\ num_cuts' = num_cuts + 1
        /\ ~IsTrivialCut(circuit, initial_to_final_qubit_map, last_cut'[1], last_cut'[2]))
       => LET t == last_cut'[1]
              old_qubit == OldQubit(initial_to_final_qubit_map, last_cut'[2])
              new_qubit == NamedQubit(cut_index)
          IN /\ Len(circuit') = Len(circuit)
             /\ new_qubit \notin AllQubits(circuit)
             /\ \A j \in 0 .. Len(circuit) - 1 :
                    IF j < t
                    THEN /\ circuit'[j + 1] = circuit[j + 1]
                         /\ new_qubit \notin QubitsAt(circuit', j)
                    ELSE /\ Cardinality(circuit'[j + 1]) = Cardinality(circuit[j + 1])
                         /\ \A op \in circuit[j + 1] :
                                IF old_qubit \in op
                                THEN ((op \ {old_qubit}) \cup {new_qubit}) \in circuit'[j + 1]
                                ELSE op \in circuit'[j + 1]
                         /\ old_qubit \notin QubitsAt(circuit', j)
             /\ \E j \in 0 .. Len(circuit) - 1 : j < t /\ old_qubit \in QubitsAt(circuit', j)
             /\ \E j \in 0 .. Len(circuit) - 1 : j >= t /\ new_qubit \in QubitsAt(circuit', j)]_vars

\* a cut was applied to a qubit that a two-qubit operation addresses downstream of the
\* cut, in a circuit whose upstream moment also addresses the other qubit
C15_Witness ==
    /\ pc = "cutting"
    /\ last_branch = "applied"
    /\ cut_index = 1
    /\ last_cut[1] = 1
    /\ Len(circuit) = 2
    /\ \E op \in circuit[2] : Cardinality(op) = 2 /\ NamedQubit(0) \in op
    /\ Cardinality(QubitsAt(circuit, 0)) = 2


\* the identity has no operation strictly before moment index t, or none at or after t
TrivialFor(circ, t, identity) ==
    \/ \A j \in 0 .. Len(circ) - 1 : j < t => ~AddressedAt(circ, j, identity)
    \/ \A j \in 0 .. Len(circ) - 1 : j >= t => ~AddressedAt(circ, j, identity)

\* C16: the routing map sends a qubit that was cut to the identity made by the latest
\* cut of its wire that was not trivial.  An iteration of the cut loop works on that
\* identity: when the cut is not trivial the identity becomes the quantum_outputs key of
\* the new cut (for a wire cut before, this is the quantum_inputs key of the previous cut
\* of the wire, which holds a smaller name), and the map sends the qubit to the new cut
\* qubit; when the cut is trivial the map stays as it is.
C16_RoutingThroughCuts ==
    [][(pc = "cutting" /\ num_cuts' = num_cuts + 1) =>
          LET t == last_cut'[1]
              qubit == last_cut'[2]
              cut_before == qubit \in DOMAIN initial_to_final_qubit_map
              current == IF cut_before THEN initial_to_final_qubit_map[qubit] ELSE qubit
          IN IF TrivialFor(circuit, t, current)
             THEN initial_to_final_qubit_map' = initial_to_final_qubit_map
             ELSE /\ initial_to_final_qubit_map'
                        = Put(initial_to_final_qubit_map, qubit, NamedQubit(cut_index))
                  /\ DOMAIN quantum_outputs' \ DOMAIN quantum_outputs = {current}
                  /\ DOMAIN quantum_inputs' \ DOMAIN quantum_inputs = {NamedQubit(cut_index)}
                  /\ cut_before =>
                         /\ current \in DOMAIN quantum_inputs
                         /\ quantum_inputs[current] < quantum_outputs'[current]
                         /\ quantum_inputs'[current] = quantum_inputs[current]]_vars

\* three cuts of one wire were processed: two were applied, the second of them to the
\* cut qubit that the first had made, and one was skipped
C16_Witness ==
    /\ pc = "cutting"
    /\ num_cuts = 3
    /\ cut_index = 2
    /\ last_branch = "applied"
    /\ initial_to_final_qubit_map[last_cut[2]] = NamedQubit(1)
    /\ NamedQubit(0) \in DOMAIN quantum_inputs
    /\ NamedQubit(0) \in DOMAIN quantum_outputs
    /\ quantum_outputs[NamedQubit(0)] = 1


\* the (fragment, qubit) pairs whose quantum input holds the cut-name
InputPorts(frags, name) ==
    {fq \in UNION {{<<f, q>> : q \in DOMAIN frags[f].quantum_inputs} : f \in DOMAIN frags} :
        frags[fq[1]].quantum_inputs[fq[2]] = name}

\* the (fragment, qubit) pairs whose quantum output holds the cut-name
OutputPorts(frags, name) ==
    {fq \in UNION {{<<f, q>> : q \in DOMAIN frags[f].quantum_outputs} : f \in DOMAIN frags} :
        frags[fq[1]].quantum_outputs[fq[2]] = name}

\* the (fragment, position) pairs of the tensor index labels that are the cut-name
TensorSlots(frags, name) ==
    {fi \in UNION {{<<f, i>> : i \in DOMAIN CutIndices(frags[f])} : f \in DOMAIN frags} :
        CutIndices(frags[fi[1]])[fi[2]] = name}

\* C17: over the fragments cut_circuit returns, every cut-name handed out is the value
\* of exactly one quantum input and of exactly one quantum output, and no other name
\* occurs; so over the tensors of one block per fragment every index label is carried by
\* exactly two slots and the contraction leaves no open index.
C17_CutNamePairing ==
    Returned_cut_circuit =>
        /\ \A name \in 0 .. cut_index - 1 :
               /\ Cardinality(InputPorts(fragments, name)) = 1
               /\ Cardinality(OutputPorts(fragments, name)) = 1
               /\ Cardinality(TensorSlots(fragments, name)) = 2
        /\ NamesInFragments(fragments) \subseteq 0 .. cut_index - 1
        /\ \A f \in DOMAIN fragments :
               Len(CutIndices(fragments[f]))
                   = Cardinality(DOMAIN fragments[f].quantum_inputs)
                     + Cardinality(DOMAIN fragments[f].quantum_outputs)

\* cut_circuit returned three fragments tied by two cut-names
C17_Witness ==
    /\ pc = "cut"
    /\ cut_index = 2
    /\ Len(fragments) = 3
    /\ \E f \in DOMAIN fragments : Len(CutIndices(fragments[f])) = 2

\* the fragments whose quantum outputs hold the cut-name
OutputHolders(frags, name) == {fq[1] : fq \in OutputPorts(frags, name)}

\* the fragments whose quantum inputs hold the cut-name
InputHolders(frags, name) == {fq[1] : fq \in InputPorts(frags, name)}

\* C18 (as stated): for every cut that is not trivial, the fragment whose quantum_outputs
\* holds the cut-name is a different fragment from the one whose quantum_inputs holds it.
C18_CutBetweenTwoFragments ==
    Returned_cut_circuit =>
        \A name \in 0 .. cut_index - 1 :
            OutputHolders(fragments, name) \cap InputHolders(fragments, name) = {}

\* C18 (amended): for every cut that is not trivial, one fragment holds the cut-name in
\* its quantum_outputs and one in its quantum_inputs; the two are different fragments
\* unless operations of the rewritten circuit join the qubit upstream of the cut to the
\* cut qubit downstream of it, and then one and the same fragment holds both.
C18_CutBetweenFragmentsUnlessJoined ==
    Returned_cut_circuit =>
        \A name \in 0 .. cut_index - 1 :
            /\ Cardinality(OutputHolders(fragments, name)) = 1
            /\ Cardinality(InputHolders(fragments, name)) = 1
            /\ \A out \in OutputPorts(fragments, name) :
                   (OutputHolders(fragments, name) = InputHolders(fragments, name))
                       <=> (NamedQubit(name) \in Component(circuit, {out[2]}))

\* cut_circuit returned one fragment that holds both sides of its only cut
C18_Witness ==
    /\ pc = "cut"
    /\ cut_index = 1
    /\ Len(fragments) = 1
    /\ OutputHolders(fragments, 0) = {1}
    /\ InputHolders(fragments, 0) = {1}


\* ---------------------------------------------------------------- claims on the tomography of one fragment

\* the states of a preparation basis: 4 for SIC, 6 for Pauli
BasisStates(prep_basis) ==
    IF prep_basis = "SIC" THEN {"S0", "S1", "S2", "S3"}
    ELSE {"Z+", "Z-", "X+", "X-", "Y+", "Y-"}

\* C19: for a fragment with k quantum inputs and m quantum outputs, the tomography
\* simulates exactly P^k * 3^m (preparation, measurement-basis) settings before it
\* returns, P the number of states of the preparation basis, no setting twice and every
\* setting a k-tuple of basis states with an m-tuple of Pauli bases; with k = m = 0 it
\* simulates the one empty setting.
C19_SettingEnumeration ==
    single_pc = "returned" =>
        LET k == single_call.num_inputs
            m == single_call.num_outputs
            P == Cardinality(BasisStates(single_call.prep_basis))
        IN /\ Len(simulated) = Power(P, k) * Power(3, m)
           /\ \A i, j \in DOMAIN simulated : i # j => simulated[i] # simulated[j]
           /\ \A i \in DOMAIN simulated :
                  /\ Len(simulated[i][1]) = k
                  /\ Len(simulated[i][2]) = m
                  /\ \A p \in 1 .. k :
                         simulated[i][1][p] \in BasisStates(single_call.prep_basis)
                  /\ \A p \in 1 .. m : simulated[i][2][p] \in {"X", "Y", "Z"}
           /\ (k = 0 /\ m = 0) => simulated = << << << >>, << >> >> >>

\* the tomography of a fragment with one quantum input and one quantum output returned
\* after 18 settings in the Pauli basis
C19_Witness ==
    /\ single_pc = "returned"
    /\ single_call.num_inputs = 1
    /\ single_call.num_outputs = 1
    /\ single_call.prep_basis = "Pauli"
    /\ Len(simulated) = 18

C21_DefaultRepetitionsRunExact ==
    (tomo_pc # "called" /\ ~tomo_call.given) =>
        /\ tomo_pc = "done"
        /\ DOMAIN tomography_modes = DOMAIN tomo_call.fragments
        /\ \A f \in DOMAIN tomography_modes : tomography_modes[f] = "exact"

\* C22: for a repetitions that is an integer, every fragment of the call is tomographed
\* in sampling mode exactly when repetitions // num_variants is at least 1 and in exact
\* mode exactly when it is 0; all fragments of one call run in the same mode.
C22_ModeSelection ==
    tomo_pc = "done" =>
        LET budget == tomo_call.repetitions
                          \div NumVariants(tomo_call.fragments, tomo_call.prep_basis)
        IN /\ DOMAIN tomography_modes = DOMAIN tomo_call.fragments
           /\ \A f \in DOMAIN tomography_modes :
                  /\ (tomography_modes[f] = "sampling") <=> (budget >= 1)
                  /\ (tomography_modes[f] = "exact") <=> (budget = 0)
           /\ \A f, g \in DOMAIN tomography_modes : tomography_modes[f] = tomography_modes[g]

\* two fragments were tomographed exactly, on a budget too small for their settings
C22_Witness ==
    /\ tomo_pc = "done"
    /\ Len(tomo_call.fragments) = 2
    /\ tomo_call.repetitions > 0
    /\ repetitions_per_variant = 0
    /\ tomography_modes = <<"exact", "exact">>


\* ---------------------------------------------------------------- claims on the tomography data

\* the slot the claim names for a joint outcome of the setting: the first c bits are the
\* circuit outcome, the remaining bits the quantum outcome
SlotOf(outcome, setting, c) ==
    <<SubSeq(outcome, 1, c), <<setting[1], setting[2], SubSeq(outcome, c + 1, Len(outcome))>> >>

\* C23: in exact and in sampling mode, a joint outcome over circuit_outputs ++
\* quantum_outputs is recorded at tomography_data[circuit_outcome][(prep_states,
\* meas_bases, quantum_outcome)], circuit_outcome the first len(circuit_outputs) bits
\* and quantum_outcome the remaining len(quantum_outputs) bits: every outcome of the
\* latest setting has its own slot, which holds that outcome's count or probability.
C23_OutcomeSplit ==
    (single_pc \in {"looping", "returned"} /\ setting_index > 0) =>
        LET c == single_call.num_circuit_outputs
            m == single_call.num_outputs
            setting == simulated[setting_index]
        IN IF single_repetitions # 0
           THEN /\ Cardinality(DOMAIN setting_data) = Cardinality(DOMAIN outcome_counter)
                /\ \A outcome \in DOMAIN outcome_counter :
                       /\ SlotOf(outcome, setting, c) \in DOMAIN setting_data
                       /\ setting_data[SlotOf(outcome, setting, c)][1] = outcome_counter[outcome]
           ELSE \A outcome \in [1 .. c + m -> {0, 1}] :
                    /\ SlotOf(outcome, setting, c) \in DOMAIN exact_data
                    /\ exact_data[SlotOf(outcome, setting, c)] = outcome
                    /\ Len(SlotOf(outcome, setting, c)[1]) = c
                    /\ Len(SlotOf(outcome, setting, c)[2][3]) = m

\* a fragment with one circuit output and one quantum output was sampled, the outcomes
\* 01 and 10 were the ones observed, and 01 is filed under the circuit outcome 0 and the
\* quantum outcome 1
C23_Witness ==
    /\ single_pc = "looping"
    /\ single_repetitions # 0
    /\ single_call.num_circuit_outputs = 1
    /\ single_call.num_outputs = 1
    /\ DOMAIN outcome_counter = {<<0, 1>>, <<1, 0>>}
    /\ \E key \in DOMAIN setting_data :
           key[1] = <<0>> /\ key[2][3] = <<1>> /\ setting_data[key][1] = outcome_counter[<<0, 1>>]

\* C24: exact-mode tomography data of a fragment with c circuit outputs, k quantum
\* inputs and m quantum outputs has exactly 2^c circuit-outcome keys, each holding
\* exactly the P^k * 3^m * 2^m conditions condition_iterator produces, and no slot is
\* written more than once.
C24_ExactDataComplete ==
    (single_pc = "returned" /\ single_repetitions = 0) =>
        LET c == single_call.num_circuit_outputs
            k == single_call.num_inputs
            m == single_call.num_outputs
            P == Cardinality(BasisStates(single_call.prep_basis))
            iterated == ConditionIterator(k, m, single_call.prep_basis)
            conditions == {iterated[i] : i \in DOMAIN iterated}
            circuit_outcomes == {key[1] : key \in DOMAIN exact_data}
        IN /\ Cardinality(circuit_outcomes) = Power(2, c)
           /\ \A circuit_outcome \in circuit_outcomes :
                  LET held == {key[2] : key \in {x \in DOMAIN exact_data :
                                                    x[1] = circuit_outcome}}
                  IN /\ held = conditions
                     /\ Cardinality(held) = Power(P, k) * Power(3, m) * Power(2, m)
           /\ DOMAIN slot_writes = DOMAIN exact_data
           /\ \A key \in DOMAIN slot_writes : slot_writes[key] = 1

\* exact tomography of a fragment with one circuit output, one quantum input and one
\* quantum output returned 2 * 36 slots in the Pauli basis
C24_Witness ==
    /\ single_pc = "returned"
    /\ single_repetitions = 0
    /\ single_call.num_circuit_outputs = 1
    /\ single_call.num_inputs = 1
    /\ single_call.num_outputs = 1
    /\ single_call.prep_basis = "Pauli"
    /\ Cardinality(DOMAIN exact_data) = 72


\* ---------------------------------------------------------------- claims on the redistribution

\* how often the value occurs in the sequence
Occurrences(seq, value) == Cardinality({i \in DOMAIN seq : seq[i] = value})

\* C25: the correction scans the eigenvalues in ascending order; a value found negative
\* at sorted position i, after the shifts made so far, is set to 0 and its value is added
\* in equal shares v / (N - i - 1) to the N - i - 1 values to its right only; the scan
\* stops at the first value that is not negative when reached, and the values returned
\* are those the scan stopped with.
C25_RedistributionRule ==
    mlc_pc = "corrected" =>
        LET N == Size(probabilities)
            passes == Len(sorted_trace) - 1
            last == sorted_trace[Len(sorted_trace)]
        IN /\ \A i, j \in 1 .. N : i < j => sorted_trace[1][i] <= sorted_trace[1][j]
           /\ \A i \in 1 .. N :
                  Occurrences(sorted_trace[1], Scale(N) * Ravel(probabilities)[i])
                      = Occurrences(Ravel(probabilities), Ravel(probabilities)[i])
           /\ \A t \in 1 .. passes :
                  /\ sorted_trace[t][t] < 0
                  /\ sorted_trace[t + 1][t] = 0
                  /\ \A j \in t + 1 .. N :
                         (N - t) * sorted_trace[t + 1][j]
                             = (N - t) * sorted_trace[t][j] + sorted_trace[t][t]
                  /\ \A j \in 1 .. t - 1 : sorted_trace[t + 1][j] = sorted_trace[t][j]
           /\ passes = N \/ last[passes + 1] >= 0
           /\ \A i \in 1 .. N :
                  Occurrences(Ravel(corrected), last[i]) = Occurrences(last, last[i])

\* the scan set two of four values to 0, the second of which was not negative before the
\* first one's share reached it, and stopped at the third
C25_Witness ==
    /\ mlc_pc = "corrected"
    /\ Size(probabilities) = 4
    /\ Len(sorted_trace) = 3
    /\ sorted_trace[1][1] < 0
    /\ sorted_trace[1][2] >= 0
    /\ sorted_trace[3][3] > 0
    /\ sorted_trace[3][4] < sorted_trace[1][4]

\* C27: the array the correction returns has the shape of its input; the value at a
\* position is the corrected version of the input value at that position, the sort being
\* undone exactly; and the correction preserves order: input[p] <= input[q] implies
\* output[p] <= output[q].
C27_SortUndone ==
    mlc_pc = "corrected" =>
        /\ Len(corrected) = Len(probabilities)
        /\ \A r \in DOMAIN probabilities : Len(corrected[r]) = Len(probabilities[r])
        /\ \A order \in ArgSorts(Ravel(probabilities)) :
               \A i \in DOMAIN order :
                   Ravel(corrected)[order[i] + 1] = sorted_trace[Len(sorted_trace)][i]
        /\ \A p, q \in 1 .. Size(probabilities) :
               Ravel(probabilities)[p] <= Ravel(probabilities)[q]
                   => Ravel(corrected)[p] <= Ravel(corrected)[q]

\* an array of two blocks whose largest value comes first and whose smallest comes
\* second was corrected: the first position keeps the largest value, the second gets 0
C27_Witness ==
    /\ mlc_pc = "corrected"
    /\ Len(probabilities) = 2
    /\ Len(probabilities[1]) = 2
    /\ probabilities[1][2] < 0
    /\ \A i \in 1 .. 4 : Ravel(probabilities)[i] <= probabilities[1][1]
    /\ \A i \in 1 .. 4 : Ravel(probabilities)[i] >= probabilities[1][2]
    /\ probabilities[2][1] < probabilities[2][2]
    /\ probabilities[2][2] < probabilities[1][1]
    /\ corrected[1][2] = 0
    /\ corrected[1][1] > corrected[2][2]
    /\ corrected[2][2] > 0


\* ---------------------------------------------------------------- claims on the scope of the correction

\* the eigenvalues of a model in the scale of the corrected ones
Scaled(eigenvalues) ==
    [r \in DOMAIN eigenvalues |->
        [c \in DOMAIN eigenvalues[r] |-> eigenvalues[r][c] * Scale(Size(eigenvalues))]]

\* C26: the redistribution is run once per fragment over the eigenvalues of all its
\* blocks together: when a fragment has a negative eigenvalue, every eigenvalue of the
\* fragment that comes out positive has been lowered, in whichever block it lies; and
\* the corrected model of a fragment depends on that fragment's model only: fragments
\* with the same model get the same correction whatever else the call holds, and a
\* model without negative eigenvalues is returned as it was.
C26_CorrectionScope ==
    models_pc = "corrected" =>
        /\ DOMAIN corrected_models = DOMAIN fragment_models
        /\ \A f \in DOMAIN fragment_models :
               LET given == Scaled(fragment_models[f])
                   result == corrected_models[f]
               IN /\ (\E r \in DOMAIN given : \E c \in DOMAIN given[r] : given[r][c] < 0)
                         => \A r \in DOMAIN given : \A c \in DOMAIN given[r] :
                                result[r][c] > 0 => result[r][c] < given[r][c]
                  /\ (\A r \in DOMAIN given : \A c \in DOMAIN given[r] : given[r][c] >= 0)
                         => result = given
                  /\ result \in CorrectedSingleFragmentModel(fragment_models[f])
                  /\ Cardinality(CorrectedSingleFragmentModel(fragment_models[f])) = 1

\* a fragment of three blocks with a negative eigenvalue in its first block and a
\* positive one in its second was corrected next to a fragment whose only eigenvalue is
\* negative: the positive eigenvalue was lowered and stayed positive, the other
\* fragment's became 0
C26_Witness ==
    /\ models_pc = "corrected"
    /\ Len(fragment_models) = 2
    /\ Len(fragment_models[1]) = 3
    /\ fragment_models[1][1][1] < 0
    /\ fragment_models[1][2][1] > 0
    /\ corrected_models[1][1][1] = 0
    /\ corrected_models[1][2][1] > 0
    /\ corrected_models[1][2][1] < Scaled(fragment_models[1])[2][1]
    /\ fragment_models[2] = << <<-1>> >>
    /\ corrected_models[2] = << <<0>> >>


\* ---------------------------------------------------------------- claims on the combiner's chains

\* the number of cuts the while loop passes from the qubit on, counted up to fuel + 1
RECURSIVE ChainHops(_, _, _)
ChainHops(frags, qubit, fuel) ==
    IF qubit \notin DOMAIN QubitToCut(frags) THEN 0
    ELSE IF fuel = 0 THEN 1
    ELSE 1 + ChainHops(frags, CutToQubit(frags)[QubitToCut(frags)[qubit]], fuel - 1)

\* C29: for fragments produced by cut_circuit, the loop of get_outcome_combiner that
\* follows qubit -> cut-name -> qubit for each original qubit terminates, after no more
\* hops than there are cuts, at a qubit that is a circuit output of some fragment; it
\* maps distinct original qubits to distinct final qubits, and the final qubits are the
\* circuit outputs of the fragments, each once.
C29_ChainsEndAtCircuitOutputs ==
    (pc \in {"combined", "combiner_error"} /\ fragments # << >>) =>
        LET originals == CircuitQubits(fragments)
            final == CombinerQubitMap(fragments)
            outputs == ConcatenatedQubits(fragments)
        IN /\ originals = AllQubits(input_circuit)
           /\ \A q \in originals :
                  /\ ChainHops(fragments, q, cut_index) <= cut_index
                  /\ \E f \in DOMAIN fragments :
                         \E i \in DOMAIN fragments[f].circuit_outputs :
                             fragments[f].circuit_outputs[i] = final[q]
           /\ \A p, q \in originals : p # q => final[p] # final[q]
           /\ {final[q] : q \in originals} = {outputs[i] : i \in DOMAIN outputs}
           /\ \A i, j \in DOMAIN outputs : i # j => outputs[i] # outputs[j]
           /\ pc = "combined"

\* the combiner followed one qubit of a circuit of two through two cuts and the other
\* through one cut, to two circuit outputs that the cuts had made
C29_Witness ==
    /\ pc = "combined"
    /\ cut_index = 3
    /\ CircuitQubits(fragments) = {LineQubit(0), LineQubit(1)}
    /\ ChainHops(fragments, LineQubit(0), cut_index) = 2
    /\ ChainHops(fragments, LineQubit(1), cut_index) = 1
    /\ CombinerQubitMap(fragments)[LineQubit(0)] = NamedQubit(2)
    /\ CombinerQubitMap(fragments)[LineQubit(1)] = NamedQubit(1)


\* ---------------------------------------------------------------- claims on the recombination

\* the order names every qubit of the circuit exactly once
ListsEachQubitOnce(order, circ) ==
    /\ Len(order) = Cardinality(AllQubits(circ))
    /\ {order[i] : i \in DOMAIN order} = AllQubits(circ)

\* the product over the models from position i on of num_blocks()
RECURSIVE BlocksProduct(_, _)
BlocksProduct(models, i) ==
    IF i > Len(models) THEN 1
    ELSE Len(models[i].substrings) * BlocksProduct(models, i + 1)

\* the fragments of the models that are recombined
RecombinedFragments == [i \in DOMAIN recombine_models |-> recombine_models[i].fragment]

\* the combined outcomes the loop computes, one per combination
CombinedOutcomes ==
    LET perm == BitPermutation(RecombinedFragments,
                               EffectiveOrder(RecombinedFragments, recombine_order))
    IN [i \in DOMAIN contractions |-> OutcomeCombiner(perm, contractions[i])]

\* C28: when qubit_order lists every qubit of the original circuit exactly once (as the
\* default order does), recombine_fragment_models of the models of the circuit's fragments
\* contracts one network for each element of the Cartesian product of the fragments'
\* block keys, distinct combinations get distinct combined bitstrings, and the result has
\* exactly (product over the fragments of num_blocks) entries, each written once
C28_EveryCombinationOnce ==
    (/\ recombine_pc \in {"done", "error"}
     /\ recombine_models # << >>
     /\ ListsEachQubitOnce(EffectiveOrder(RecombinedFragments, recombine_order),
                           original_circuit))
    => /\ recombine_pc = "done"
       /\ Len(contractions) = BlocksProduct(recombine_models, 1)
       /\ \A i \in DOMAIN contractions :
              /\ DOMAIN contractions[i] = DOMAIN recombine_models
              /\ \A k \in DOMAIN recombine_models :
                     \E n \in DOMAIN recombine_models[k].substrings :
                         contractions[i][k] = recombine_models[k].substrings[n]
       /\ LET outcomes == CombinedOutcomes
          IN /\ \A i, j \in DOMAIN contractions :
                    i # j => /\ contractions[i] # contractions[j]
                             /\ outcomes[i] # outcomes[j]
             /\ Cardinality(DOMAIN recombined_distribution)
                    = BlocksProduct(recombine_models, 1)
             /\ \A key \in DOMAIN recombined_distribution :
                    /\ Cardinality({i \in DOMAIN contractions : outcomes[i] = key}) = 1
                    /\ \E i \in DOMAIN contractions :
                           /\ outcomes[i] = key
                           /\ recombined_distribution[key] = contractions[i]

\* two fragments of a circuit that was cut, one of them with more than one block, are
\* recombined in an order that is not the order of the concatenation
C28_Witness ==
    /\ recombine_pc = "done"
    /\ Len(recombine_models) = 2
    /\ \E i \in DOMAIN recombine_models :
           DOMAIN recombine_models[i].fragment.quantum_inputs # {}
    /\ \E i \in DOMAIN recombine_models : Len(recombine_models[i].substrings) >= 2
    /\ ListsEachQubitOnce(EffectiveOrder(RecombinedFragments, recombine_order),
                          original_circuit)
    /\ \E i \in DOMAIN contractions : CombinedOutcomes[i] # Concat(contractions[i])
    /\ Cardinality(DOMAIN recombined_distribution) >= 4


\* ---------------------------------------------------------------- claims on the job partition

\* the position of a job in the job list (the jobs of a list are distinct)
JobPosition(job) == CHOOSE i \in DOMAIN jobs : jobs[i] = job

\* C30: for num_workers >= 1 the slices find_process_jobs(jobs, rank, num_workers) of
\* the ranks 0 .. num_workers - 1 are contiguous runs of the job list, pairwise disjoint,
\* cover every job exactly once in the original order, and differ in size by at most one
C30_JobPartition ==
    (num_workers >= 1 /\ jobs_pc = "waited")
    => /\ Len(rank_jobs) = num_workers
       /\ \A r \in DOMAIN rank_jobs :
              \A i \in 1 .. Len(rank_jobs[r]) - 1 :
                  JobPosition(rank_jobs[r][i + 1]) = JobPosition(rank_jobs[r][i]) + 1
       /\ \A r, s \in DOMAIN rank_jobs :
              r # s => {rank_jobs[r][i] : i \in DOMAIN rank_jobs[r]}
                           \cap {rank_jobs[s][i] : i \in DOMAIN rank_jobs[s]} = {}
       /\ Concat(rank_jobs) = jobs
       /\ \A r, s \in DOMAIN rank_jobs : Len(rank_jobs[r]) - Len(rank_jobs[s]) <= 1

\* a job list that the number of workers does not divide has been handed out to more
\* than one worker
C30_Witness ==
    /\ jobs_pc = "waited"
    /\ num_workers >= 2
    /\ Len(jobs) > num_workers
    /\ Len(jobs) % num_workers # 0
    /\ Len(rank_jobs) = num_workers
    /\ \E i \in DOMAIN jobs : jobs[i] # i

====
